---------------------------- MODULE Spec2Model ----------------------------
(***************************************************************************)
(* NetOpsForge pack execution pipeline: PackLoader.validate_pack,          *)
(* ParserEngine, ValidationEngine and PackRunner.run_pack, with the        *)
(* collaborators (pack files, CMDB, connection manager, device, TextFSM)   *)
(* as nondeterministic environments.                                       *)
(*                                                                         *)
(* Representation.  Text that the code takes apart (condition strings,     *)
(* field values) is a sequence of one-character strings; text that the     *)
(* code only compares or passes on (names, parser kinds, messages) is an   *)
(* atomic string.  A message built with an f-string is the sequence of     *)
(* its parts.  A Python dict is a function with a finite domain; the       *)
(* insertion-ordered dict of command results is a sequence of              *)
(* <<name, parsed>> pairs.  Python's None is None (for atomic values) or   *)
(* NoValue (for character sequences).                                      *)
(***************************************************************************)
EXTENDS Integers, Sequences, FiniteSets, TLC

None == "None"
NoValue == <<"None">>

(***************************************************************************)
(* Bounds of the model.                                                    *)
(***************************************************************************)
MaxCmds == 2
MaxResults == 2

---------------------------------------------------------------------------
(***************************************************************************)
(* Text helpers (str.strip, character classes of the re module).           *)
(***************************************************************************)
WS == {" ", "\t", "\n"}
OPCHARS == {"<", ">", "=", "!"}
EQCHARS == {"=", "!"}
DIGITS == {"0", "1", "2", "3", "4", "5", "6", "7", "8", "9"}
QUOTES == {"'", "\""}

\* index after the longest run of characters of S that starts at s[i]
RECURSIVE Span(_, _, _)
Span(s, i, S) == IF i <= Len(s) /\ s[i] \in S THEN Span(s, i + 1, S) ELSE i

\* index before the longest run of characters of S that ends at s[j]
RECURSIVE RSpan(_, _, _)
RSpan(s, j, S) == IF j >= 1 /\ s[j] \in S THEN RSpan(s, j - 1, S) ELSE j

strip(s) == SubSeq(s, Span(s, 1, WS), RSpan(s, Len(s), WS))

DigitVal(c) ==
    CASE c = "0" -> 0 [] c = "1" -> 1 [] c = "2" -> 2 [] c = "3" -> 3
      [] c = "4" -> 4 [] c = "5" -> 5 [] c = "6" -> 6 [] c = "7" -> 7
      [] c = "8" -> 8 [] c = "9" -> 9

RECURSIVE DigitsVal(_)
DigitsVal(s) ==
    IF s = <<>> THEN 0
    ELSE 10 * DigitsVal(SubSeq(s, 1, Len(s) - 1)) + DigitVal(s[Len(s)])

RECURSIVE Pow10(_)
Pow10(k) == IF k = 0 THEN 1 ELSE 10 * Pow10(k - 1)

(***************************************************************************)
(* float(x) for a character sequence: surrounding whitespace is ignored,   *)
(* then an optional sign, digits with an optional fraction (or a fraction  *)
(* alone).  The number is num / 10^scale; ok = FALSE is ValueError.  The   *)
(* alphabet of the model has no exponent, underscore, "inf" or "nan".      *)
(* Each step hands the positions it found to the next one: s is the        *)
(* stripped text, a the start of the digits, b the end of the integer      *)
(* part, c the start and d the end of the fraction.                        *)
(***************************************************************************)
FloatValue(s, ip, fp, d) ==
    IF d = Len(s) + 1 /\ Len(ip) + Len(fp) >= 1
    THEN [ok |-> TRUE,
          num |-> IF s[1] = "-" THEN 0 - DigitsVal(ip \o fp)
                  ELSE DigitsVal(ip \o fp),
          scale |-> Len(fp)]
    ELSE [ok |-> FALSE, num |-> 0, scale |-> 0]

FloatFraction(s, a, b, c) ==
    FloatValue(s, SubSeq(s, a, b - 1),
               SubSeq(s, c, Span(s, c, DIGITS) - 1), Span(s, c, DIGITS))

FloatInteger(s, a, b) ==
    FloatFraction(s, a, b, IF b <= Len(s) /\ s[b] = "." THEN b + 1 ELSE b)

FloatSign(s, a) == FloatInteger(s, a, Span(s, a, DIGITS))

FloatStripped(s) ==
    FloatSign(s, IF Len(s) >= 1 /\ s[1] \in {"-", "+"} THEN 2 ELSE 1)

float(x) == FloatStripped(strip(x))

\* comparisons of two floats given as num / 10^scale
FLt(x, y) == x.num * Pow10(y.scale) < y.num * Pow10(x.scale)
FEq(x, y) == x.num * Pow10(y.scale) = y.num * Pow10(x.scale)

---------------------------------------------------------------------------
(***************************************************************************)
(* PackLoader.validate_pack.  A defect is the sequence of the parts of its *)
(* f-string; the result is the list of defects in the order of the code.   *)
(***************************************************************************)
Falsy(x) == x = None \/ x = ""

OPERATION_TYPES == {"read", "write"}
EXECUTION_MODES == {"observe", "execute"}
CONNECTION_TYPES == {"ssh", "telnet", "api"}
PARSER_TYPES == {"textfsm", "regex", "raw"}
SEVERITIES == {"info", "warning", "critical"}

\* a variant without the check of the parser kind
CommandDefectsAnyParser(cmd) ==
    (IF cmd.parser = "textfsm" /\ Falsy(cmd.parser_template)
     THEN << <<"Command '", cmd.name,
               "' uses textfsm but no parser_template specified">> >>
     ELSE <<>>)
    \o (IF cmd.parser = "regex" /\ Falsy(cmd.parser_pattern)
        THEN << <<"Command '", cmd.name,
                  "' uses regex but no parser_pattern specified">> >>
        ELSE <<>>)

CommandDefects(cmd) ==
    (IF cmd.parser \notin PARSER_TYPES
     THEN << <<"Invalid parser for command '", cmd.name, "': ", cmd.parser>> >>
     ELSE <<>>)
    \o (IF cmd.parser = "textfsm" /\ Falsy(cmd.parser_template)
        THEN << <<"Command '", cmd.name,
                  "' uses textfsm but no parser_template specified">> >>
        ELSE <<>>)
    \o (IF cmd.parser = "regex" /\ Falsy(cmd.parser_pattern)
        THEN << <<"Command '", cmd.name,
                  "' uses regex but no parser_pattern specified">> >>
        ELSE <<>>)

RECURSIVE CommandsDefects(_)
CommandsDefects(cmds) ==
    IF cmds = <<>> THEN <<>>
    ELSE CommandDefects(Head(cmds)) \o CommandsDefects(Tail(cmds))

RECURSIVE SeverityDefects(_)
SeverityDefects(vals) ==
    IF vals = <<>> THEN <<>>
    ELSE (IF Head(vals).severity \notin SEVERITIES
          THEN << <<"Invalid severity for validation '", Head(vals).name,
                    "': ", Head(vals).severity>> >>
          ELSE <<>>)
         \o SeverityDefects(Tail(vals))

\* a variant without the check of the rules' severities
validate_pack_without_severities(pack) ==
    (IF Falsy(pack.metadata.name)
     THEN << <<"Pack name is required">> >> ELSE <<>>)
    \o (IF pack.commands = <<>>
        THEN << <<"Pack must have at least one command">> >> ELSE <<>>)
    \o (IF pack.metadata.operation_type \notin OPERATION_TYPES
        THEN << <<"Invalid operation_type: ", pack.metadata.operation_type>> >>
        ELSE <<>>)
    \o (IF pack.execution.mode \notin EXECUTION_MODES
        THEN << <<"Invalid execution mode: ", pack.execution.mode>> >>
        ELSE <<>>)
    \o (IF pack.authentication.connection_type \notin CONNECTION_TYPES
        THEN << <<"Invalid connection_type: ",
                  pack.authentication.connection_type>> >>
        ELSE <<>>)
    \o CommandsDefects(pack.commands)

validate_pack(pack) ==
    (IF Falsy(pack.metadata.name)
     THEN << <<"Pack name is required">> >> ELSE <<>>)
    \o (IF pack.commands = <<>>
        THEN << <<"Pack must have at least one command">> >> ELSE <<>>)
    \o (IF pack.metadata.operation_type \notin OPERATION_TYPES
        THEN << <<"Invalid operation_type: ", pack.metadata.operation_type>> >>
        ELSE <<>>)
    \o (IF pack.execution.mode \notin EXECUTION_MODES
        THEN << <<"Invalid execution mode: ", pack.execution.mode>> >>
        ELSE <<>>)
    \o (IF pack.authentication.connection_type \notin CONNECTION_TYPES
        THEN << <<"Invalid connection_type: ",
                  pack.authentication.connection_type>> >>
        ELSE <<>>)
    \o CommandsDefects(pack.commands)
    \o SeverityDefects(pack.validations)

\* sep.join(parts) for a list of part sequences
RECURSIVE Join(_, _)
Join(items, sep) ==
    IF items = <<>> THEN <<>>
    ELSE IF Len(items) = 1 THEN items[1]
    ELSE items[1] \o <<sep>> \o Join(Tail(items), sep)

---------------------------------------------------------------------------
(***************************************************************************)
(* ParserEngine.  A device output is a sequence of lines <<key, value>>.   *)
(* A regex pattern is an atomic string; re_compile gives what the pattern  *)
(* does: it raises re.error, or it searches for the first run of lines     *)
(* with the given keys and captures each value under a group name.         *)
(***************************************************************************)
NoExc == [type |-> None, msg |-> <<>>]
Exc(t, m) == [type |-> t, msg |-> m]

PAT_HEALTH == "cpu\\s+(?P<cpu_5min>\\S+)\\s+status\\s+(?P<status>\\S+)"
PAT_STATUS == "status\\s+(?P<status>\\S+)"

re_compile(pattern) ==
    CASE pattern = PAT_HEALTH ->
           [ok |-> TRUE, parts |-> << <<"cpu", "cpu_5min">>, <<"status", "status">> >>]
      [] pattern = PAT_STATUS ->
           [ok |-> TRUE, parts |-> << <<"status", "status">> >>]
      [] OTHER -> [ok |-> FALSE, parts |-> <<>>]

EmptyDict == [f \in {} |-> NoValue]

MatchesAt(output, parts, i) ==
    /\ i + Len(parts) - 1 <= Len(output)
    /\ \A j \in 1..Len(parts) : output[i + j - 1][1] = parts[j][1]

\* re.search: the first position of output at which the pattern matches, 0
\* when there is none
RECURSIVE re_search(_, _, _)
re_search(output, parts, i) ==
    IF i > Len(output) THEN 0
    ELSE IF MatchesAt(output, parts, i) THEN i
    ELSE re_search(output, parts, i + 1)

\* match.groupdict()
groupdict(output, parts, m) ==
    [g \in {parts[j][2] : j \in 1..Len(parts)} |->
        LET j == CHOOSE k \in 1..Len(parts) : parts[k][2] = g
        IN  output[m + j - 1][2]]

Returned(v) == [raised |-> FALSE, exc |-> NoExc, value |-> v]
Raised(e) == [raised |-> TRUE, exc |-> e, value |-> [type |-> None]]

\* a variant for which a pattern that is not found is an error
parse_regex_strict(output, pattern) ==
    LET re == re_compile(pattern)
        m == re_search(output, re.parts, 1)
    IN  IF ~re.ok THEN Raised(Exc("re.error", <<"bad pattern: ", pattern>>))
        ELSE IF m # 0
        THEN Returned([type |-> "dict", value |-> groupdict(output, re.parts, m)])
        ELSE Raised(Exc("ValueError", <<"pattern not found: ", pattern>>))

parse_regex(output, pattern) ==
    LET re == re_compile(pattern)
        m == re_search(output, re.parts, 1)
    IN  IF ~re.ok THEN Raised(Exc("re.error", <<"bad pattern: ", pattern>>))
        ELSE IF m # 0
        THEN Returned([type |-> "dict", value |-> groupdict(output, re.parts, m)])
        ELSE Returned([type |-> "dict", value |-> EmptyDict])

(***************************************************************************)
(* TextFSM is an external engine.  tf is what it does on this call:        *)
(* "unavailable" (the import failed), "parse_error" (TextFSM or ParseText  *)
(* raises) or "ok"; TEMPLATES are the template files that exist.  With the *)
(* template cpu.tpl the engine yields one row per "cpu" line.              *)
(***************************************************************************)
TEMPLATES == {"cpu.tpl"}
TfOutcomes == {"ok", "unavailable", "parse_error"}

RECURSIVE ParseText(_)
ParseText(output) ==
    IF output = <<>> THEN <<>>
    ELSE (IF Head(output)[1] = "cpu"
          THEN << [g \in {"cpu_5min"} |-> Head(output)[2]] >>
          ELSE <<>>)
         \o ParseText(Tail(output))

parse_textfsm(output, template_name, tf) ==
    IF tf = "unavailable"
    THEN Raised(Exc("RuntimeError", <<"TextFSM is not available">>))
    ELSE IF template_name \notin TEMPLATES
    THEN Raised(Exc("FileNotFoundError",
                    <<"TextFSM template not found: ", template_name>>))
    ELSE IF tf = "parse_error"
    THEN Raised(Exc("TextFSMError", <<"parse error">>))
    ELSE Returned([type |-> "list", value |-> ParseText(output)])

parse_raw(output) == Returned([type |-> "str", value |-> output])

parse(output, parser_type, template, pattern, tf) ==
    IF parser_type = "textfsm" THEN parse_textfsm(output, template, tf)
    ELSE IF parser_type = "regex" THEN parse_regex(output, pattern)
    ELSE IF parser_type = "raw" THEN parse_raw(output)
    ELSE Raised(Exc("ValueError", <<"Unknown parser type: ", parser_type>>))

dict_get(d, k) == IF k \in DOMAIN d THEN d[k] ELSE NoValue

\* field paths that contain '.' or '['
COMPLEX_PATHS == {"sys.uptime", "interfaces[0].status"}

\* a variant that looks a field up in the last row of a list
extract_value_last_row(parsed_data, field_path) ==
    IF parsed_data.type = "dict" THEN dict_get(parsed_data.value, field_path)
    ELSE IF parsed_data.type = "list" /\ Len(parsed_data.value) > 0
    THEN dict_get(parsed_data.value[Len(parsed_data.value)], field_path)
    ELSE NoValue

extract_value(parsed_data, field_path) ==
    IF field_path \notin COMPLEX_PATHS
    THEN IF parsed_data.type = "dict" THEN dict_get(parsed_data.value, field_path)
         ELSE IF parsed_data.type = "list" /\ Len(parsed_data.value) > 0
         THEN dict_get(parsed_data.value[1], field_path)
         ELSE NoValue
    ELSE IF parsed_data.type = "dict" THEN dict_get(parsed_data.value, field_path)
    ELSE IF parsed_data.type = "list" /\ Len(parsed_data.value) > 0
    THEN dict_get(parsed_data.value[1], field_path)
    ELSE NoValue

---------------------------------------------------------------------------
(***************************************************************************)
(* ValidationEngine.                                                       *)
(***************************************************************************)
\* re.match(r'^([<>=!]+)\s*(-?\d+\.?\d*)$', condition): the character
\* classes that follow one another are disjoint, so the longest runs are the
\* only way to match.  a is the end of the operator, b the start of the
\* literal, m the start and d the end of its integer digits, f the end of
\* the match.
NumericEnd(condition, a, b, m, d, f) ==
    [ok |-> a > 1 /\ d > m /\ f = Len(condition) + 1,
     operator |-> SubSeq(condition, 1, a - 1),
     literal |-> SubSeq(condition, b, Len(condition))]

NumericFraction(condition, a, b, m, d) ==
    NumericEnd(condition, a, b, m, d,
               Span(condition,
                    IF d <= Len(condition) /\ condition[d] = "." THEN d + 1 ELSE d,
                    DIGITS))

NumericDigits(condition, a, b, m) ==
    NumericFraction(condition, a, b, m, Span(condition, m, DIGITS))

NumericLiteral(condition, a, b) ==
    NumericDigits(condition, a, b,
                  IF b <= Len(condition) /\ condition[b] = "-" THEN b + 1 ELSE b)

NumericOperator(condition, a) == NumericLiteral(condition, a, Span(condition, a, WS))

\* a variant whose operator is optional, a bare literal standing for '=='
numeric_match_optional_operator(condition) ==
    IF Span(condition, 1, OPCHARS) = 1
    THEN NumericOperator(<<"=", "=">> \o condition, 3)
    ELSE NumericOperator(condition, Span(condition, 1, OPCHARS))

numeric_match(condition) == NumericOperator(condition, Span(condition, 1, OPCHARS))

\* a variant whose literal keeps its quotes
StringUnquoted(condition, a, b) ==
    [ok |-> /\ a > 1
            /\ b < Len(condition)
            /\ condition[b] \in QUOTES
            /\ condition[Len(condition)] \in QUOTES
            /\ \A k \in (b + 1)..(Len(condition) - 1) : condition[k] # "\n",
     operator |-> SubSeq(condition, 1, a - 1),
     literal |-> SubSeq(condition, b, Len(condition))]

\* re.match(r'^([=!]+)\s*["\'](.*)["\']\s*$', condition), tried only when
\* r'^[=!]+\s*["\'].*["\']$' matches: '.' matches no newline, and the
\* greedy group runs to the last character, which is a quote.  a is the end
\* of the operator, b the place of the opening quote.
StringQuoted(condition, a, b) ==
    [ok |-> /\ a > 1
            /\ b < Len(condition)
            /\ condition[b] \in QUOTES
            /\ condition[Len(condition)] \in QUOTES
            /\ \A k \in (b + 1)..(Len(condition) - 1) : condition[k] # "\n",
     operator |-> SubSeq(condition, 1, a - 1),
     literal |-> SubSeq(condition, b + 1, Len(condition) - 1)]

StringOperator(condition, a) == StringQuoted(condition, a, Span(condition, a, WS))

string_match(condition) == StringOperator(condition, Span(condition, 1, EQCHARS))

\* a variant whose '<=' and '>=' leave out equality
compare_numeric_strict(operator, actual_numeric, expected_value) ==
    IF ~actual_numeric.ok THEN FALSE
    ELSE IF operator = <<"<">> \/ operator = <<"<", "=">>
    THEN FLt(actual_numeric, expected_value)
    ELSE IF operator = <<">">> \/ operator = <<">", "=">>
    THEN FLt(expected_value, actual_numeric)
    ELSE IF operator = <<"=", "=">> \/ operator = <<"=">>
    THEN FEq(actual_numeric, expected_value)
    ELSE IF operator = <<"!", "=">> THEN ~FEq(actual_numeric, expected_value)
    ELSE FALSE

\* a variant that reads the operator by its first character
compare_numeric_by_prefix(operator, actual_numeric, expected_value) ==
    IF ~actual_numeric.ok THEN FALSE
    ELSE IF operator = <<"<", "=">> THEN ~FLt(expected_value, actual_numeric)
    ELSE IF operator = <<">", "=">> THEN ~FLt(actual_numeric, expected_value)
    ELSE IF operator[1] = "<" THEN FLt(actual_numeric, expected_value)
    ELSE IF operator[1] = ">" THEN FLt(expected_value, actual_numeric)
    ELSE IF operator[1] = "=" THEN FEq(actual_numeric, expected_value)
    ELSE IF operator[1] = "!" THEN ~FEq(actual_numeric, expected_value)
    ELSE FALSE

\* lines 156-171: float(actual_value) raising ValueError is caught (line 190)
compare_numeric(operator, actual_numeric, expected_value) ==
    IF ~actual_numeric.ok THEN FALSE
    ELSE IF operator = <<"<">> THEN FLt(actual_numeric, expected_value)
    ELSE IF operator = <<"<", "=">> THEN ~FLt(expected_value, actual_numeric)
    ELSE IF operator = <<">">> THEN FLt(expected_value, actual_numeric)
    ELSE IF operator = <<">", "=">> THEN ~FLt(actual_numeric, expected_value)
    ELSE IF operator = <<"=", "=">> \/ operator = <<"=">>
    THEN FEq(actual_numeric, expected_value)
    ELSE IF operator = <<"!", "=">> THEN ~FEq(actual_numeric, expected_value)
    ELSE FALSE

\* lines 177-184: str(actual_value) of a value that is text is the value
compare_string(operator, actual_str, expected_value) ==
    IF operator = <<"=", "=">> \/ operator = <<"=">>
    THEN actual_str = expected_value
    ELSE IF operator = <<"!", "=">> THEN actual_str # expected_value
    ELSE FALSE

\* the if / elif / fallback of lines 152-188, nm and sm being the two matches
evaluate_matched(actual_value, nm, sm) ==
    IF nm.ok
    THEN compare_numeric(nm.operator, float(actual_value), float(nm.literal))
    ELSE IF sm.ok
    THEN compare_string(sm.operator, actual_value, sm.literal)
    ELSE FALSE

evaluate_stripped(actual_value, condition) ==
    evaluate_matched(actual_value, numeric_match(condition),
                     string_match(condition))

_evaluate_condition(actual_value, condition) ==
    IF actual_value = NoValue THEN FALSE
    ELSE evaluate_stripped(actual_value, strip(condition))

\* the first value that is not None, over the command results in the order
\* of the dict
RECURSIVE _extract_field_value(_, _)
_extract_field_value(field, parsed_data) ==
    IF parsed_data = <<>> THEN NoValue
    ELSE LET value == extract_value(Head(parsed_data)[2], field)
         IN  IF value # NoValue THEN value
             ELSE _extract_field_value(field, Tail(parsed_data))

\* lines 86-101: the message and the ValidationResult
ValidationResult(validation, actual_value, passed) ==
    [validation_name |-> validation.name,
     field |-> validation.field,
     expected |-> validation.condition,
     actual |-> actual_value,
     passed |-> passed,
     severity |-> validation.severity,
     message |-> IF validation.message # NoValue /\ validation.message # <<>>
                 THEN validation.message
                 ELSE <<IF passed THEN "PASS" ELSE "FAIL", ": ",
                        validation.field, " ", validation.condition,
                        " (actual: ", actual_value, ")">>]

evaluate_validation(validation, actual_value) ==
    ValidationResult(validation, actual_value,
                     _evaluate_condition(actual_value, validation.condition))

_execute_validation(validation, parsed_data) ==
    evaluate_validation(validation,
                        _extract_field_value(validation.field, parsed_data))

\* the verdicts up to and including the first one that failed
RECURSIVE UntilFailure(_)
UntilFailure(vs) ==
    IF vs = <<>> THEN <<>>
    ELSE IF ~Head(vs).passed THEN <<Head(vs)>>
    ELSE <<Head(vs)>> \o UntilFailure(Tail(vs))

\* a variant that stops at the first failing rule
validate_until_failure(validations, parsed_data) ==
    UntilFailure([k \in 1..Len(validations) |->
                     _execute_validation(validations[k], parsed_data)])

validate(validations, parsed_data) ==
    [k \in 1..Len(validations) |->
        _execute_validation(validations[k], parsed_data)]

---------------------------------------------------------------------------
(***************************************************************************)
(* CMDB and ConnectionManager.                                             *)
(***************************************************************************)
NoDevice ==
    [hostname |-> None, platform |-> None, credential_ref |-> None,
     tags |-> <<>>]

allows_execution(device) ==
    \E k \in DOMAIN device.tags : device.tags[k] = "allow_execute"

\* the first device of the list with the hostname, None when there is none
RECURSIVE get_device(_, _)
get_device(devs, hostname) ==
    IF devs = <<>> THEN NoDevice
    ELSE IF Head(devs).hostname = hostname THEN Head(devs)
    ELSE get_device(Tail(devs), hostname)

\* _load_from_yaml: one Device per entry of the file, in the file's order;
\* an entry without tags gets the empty list
_load_from_yaml(file) ==
    [k \in DOMAIN file |->
        [hostname |-> file[k].hostname, platform |-> file[k].platform,
         credential_ref |-> file[k].credential_ref,
         tags |-> IF file[k].tags = NoValue THEN <<>> ELSE file[k].tags]]

PLATFORM_MAP == {"ios", "ios-xe", "nxos", "asa", "junos", "eos"}

(***************************************************************************)
(* What the credential store and Netmiko do on one connect call.           *)
(***************************************************************************)
ConnectEnvs ==
    {[cred |-> "found", handler |-> "ok"],
     [cred |-> "found", handler |-> "timeout"],
     [cred |-> "found", handler |-> "auth"],
     [cred |-> "found", handler |-> "error"],
     [cred |-> "not_found", handler |-> "ok"],
     [cred |-> "unavailable", handler |-> "ok"]}

ConnectionResult(s, m, c) ==
    [raised |-> FALSE, exc |-> NoExc, success |-> s, message |-> m,
     connection |-> c]

connect(device, credential_ref, env) ==
    LET cred_ref == IF Falsy(credential_ref) THEN device.credential_ref
                    ELSE credential_ref
    IN  IF device = NoDevice /\ Falsy(credential_ref)
        THEN [raised |-> TRUE,
              exc |-> Exc("AttributeError", <<"'NoneType' object has no attribute">>),
              success |-> FALSE, message |-> <<>>, connection |-> None]
        ELSE IF env.cred = "unavailable"
        THEN [raised |-> TRUE,
              exc |-> Exc("RuntimeError",
                          <<"Windows Credential Manager not available">>),
              success |-> FALSE, message |-> <<>>, connection |-> None]
        ELSE IF env.cred = "not_found"
        THEN ConnectionResult(FALSE, <<"Credential not found: ", cred_ref>>, None)
        ELSE IF device = NoDevice
        THEN [raised |-> TRUE,
              exc |-> Exc("AttributeError", <<"'NoneType' object has no attribute">>),
              success |-> FALSE, message |-> <<>>, connection |-> None]
        ELSE IF device.platform \notin PLATFORM_MAP
        THEN ConnectionResult(FALSE, <<"Unsupported platform: ", device.platform>>,
                              None)
        ELSE IF env.handler = "ok"
        THEN ConnectionResult(TRUE, <<"Connected to ", device.hostname>>,
                              device.hostname)
        ELSE IF env.handler = "timeout"
        THEN ConnectionResult(FALSE, <<"Connection timeout to ", device.hostname>>,
                              None)
        ELSE IF env.handler = "auth"
        THEN ConnectionResult(FALSE,
                              <<"Authentication failed for ", device.hostname>>, None)
        ELSE ConnectionResult(FALSE, <<"Connection error: ", "socket error">>, None)

---------------------------------------------------------------------------
(***************************************************************************)
(* PackRunner: the pieces of run_pack and _execute_commands.               *)
(***************************************************************************)
NoPack ==
    [metadata |-> [name |-> None, operation_type |-> None],
     execution |-> [mode |-> None, retry_count |-> 0, retry_delay_seconds |-> 0,
                    parallel_execution |-> FALSE],
     authentication |-> [credential_ref |-> None, connection_type |-> None],
     commands |-> <<>>,
     validations |-> <<>>]

NoResult ==
    [pack_name |-> None, device_hostname |-> None, success |-> FALSE,
     commands_executed |-> 0, validations_passed |-> 0, validations_failed |-> 0,
     command_results |-> <<>>, validation_results |-> <<>>, error |-> NoValue]

_create_error_result(pack_name, device_hostname, error) ==
    [pack_name |-> pack_name, device_hostname |-> device_hostname,
     success |-> FALSE,
     commands_executed |-> 0, validations_passed |-> 0, validations_failed |-> 0,
     command_results |-> <<>>, validation_results |-> <<>>, error |-> error]

\* a variant that reports the first defect only
PackInvalidMessageFirst(errors) == <<"Pack validation failed: ">> \o errors[1]

\* f"Pack validation failed: {', '.join(errors)}"
PackInvalidMessage(errors) == <<"Pack validation failed: ">> \o Join(errors, ", ")

\* a variant without the check
DeviceMissingNever(device) == FALSE

\* `if not device`
DeviceMissing(device) == device = NoDevice

\* a variant that gates on the operation kind instead of the execution mode
policy_gate_on_write(pack, device) ==
    IF pack.metadata.operation_type = "write"
    THEN IF device = NoDevice THEN "raise"
         ELSE IF ~allows_execution(device) THEN "violation" ELSE "pass"
    ELSE "pass"

\* a variant that also gates the packs whose operation kind is write
policy_gate_on_write_too(pack, device) ==
    IF pack.execution.mode = "execute" \/ pack.metadata.operation_type = "write"
    THEN IF device = NoDevice THEN "raise"
         ELSE IF ~allows_execution(device) THEN "violation" ELSE "pass"
    ELSE "pass"

\* `pack.execution.mode == 'execute' and not device.allows_execution`: the
\* attribute of a device that is None raises, and only when `and` reaches it
policy_gate(pack, device) ==
    IF pack.execution.mode = "execute"
    THEN IF device = NoDevice THEN "raise"
         ELSE IF ~allows_execution(device) THEN "violation" ELSE "pass"
    ELSE "pass"

\* a variant that ignores the flag
SkipsExecutionNever(dry_run) == FALSE

\* `if dry_run: command_results = {}`, else _execute_commands
SkipsExecution(dry_run) == dry_run

\* a variant that evaluates the rules whenever rules are declared
RunsValidationsWhenDeclared(validations, command_results) == validations # <<>>

\* `if pack.validations and command_results`
RunsValidations(validations, command_results) ==
    validations # <<>> /\ command_results # <<>>

\* results[name] = parsed: a key that is there keeps its place
DictSet(d, k, v) ==
    IF \E j \in DOMAIN d : d[j][1] = k
    THEN [j \in DOMAIN d |-> IF d[j][1] = k THEN <<k, v>> ELSE d[j]]
    ELSE Append(d, <<k, v>>)

\* a variant whose finally clause disconnects without looking at connection
ReleasesSessionAlways(connection, pending) == TRUE

\* a variant that releases after the loop instead of in a finally clause
ReleasesSessionOnSuccess(connection, pending) ==
    connection # None /\ pending = NoExc

\* `finally: if connection:` -- the clause runs whether or not an exception
\* is pending
ReleasesSession(connection, pending) == connection # None

\* a variant of disconnect without the try block
DisconnectSwallowsNothing(close_ok) == close_ok

\* ConnectionManager.disconnect: `except Exception as e: logger.warning(...)`,
\* whatever the session's own disconnect does, nothing is raised
DisconnectSwallows(close_ok) == TRUE

\* what the session's own disconnect raises when it fails
CloseError == Exc("OSError", <<"Socket is closed">>)

\* a variant with `except RuntimeError`
CatchesRuntimeError(exc) == exc.type = "RuntimeError"

\* `except Exception`: every exception of the collaborators is an Exception
Catches(exc) == TRUE

CountPassed(vs) == Cardinality({k \in DOMAIN vs : vs[k].passed})

\* a variant that counts every verdict as failed
ExecutionResultAllFailed(pack_name, device_hostname, command_results, validation_results) ==
    [pack_name |-> pack_name, device_hostname |-> device_hostname,
     success |-> TRUE,
     commands_executed |-> Len(command_results),
     validations_passed |-> CountPassed(validation_results),
     validations_failed |-> Len(validation_results),
     command_results |-> command_results,
     validation_results |-> validation_results,
     error |-> NoValue]

\* lines 130-147: the statistics and the record
ExecutionResult(pack_name, device_hostname, command_results, validation_results) ==
    [pack_name |-> pack_name, device_hostname |-> device_hostname,
     success |-> TRUE,
     commands_executed |-> Len(command_results),
     validations_passed |-> CountPassed(validation_results),
     validations_failed |->
         Len(validation_results) - CountPassed(validation_results),
     command_results |-> command_results,
     validation_results |-> validation_results,
     error |-> NoValue]

\* a variant whose success flag asks for every rule to pass
ExecutionResultStrict(pack_name, device_hostname, command_results,
                      validation_results) ==
    [pack_name |-> pack_name, device_hostname |-> device_hostname,
     success |-> CountPassed(validation_results) = Len(validation_results),
     commands_executed |-> Len(command_results),
     validations_passed |-> CountPassed(validation_results),
     validations_failed |->
         Len(validation_results) - CountPassed(validation_results),
     command_results |-> command_results,
     validation_results |-> validation_results,
     error |-> IF CountPassed(validation_results) = Len(validation_results)
               THEN NoValue ELSE <<"Validation failed">>]

BuildResultStrict(pack_name, device_hostname, pack, command_results) ==
    ExecutionResultStrict(
        pack_name, device_hostname, command_results,
        IF RunsValidations(pack.validations, command_results)
        THEN validate(pack.validations, command_results)
        ELSE <<>>)

\* lines 122-147: validations, statistics, the record of a completed run
BuildResult(pack_name, device_hostname, pack, command_results) ==
    ExecutionResult(
        pack_name, device_hostname, command_results,
        IF RunsValidations(pack.validations, command_results)
        THEN validate(pack.validations, command_results)
        ELSE <<>>)

---------------------------------------------------------------------------
(***************************************************************************)
(* The inputs of the model: pack files, inventory, device outputs.         *)
(***************************************************************************)
Cmd(n, c, p, t, r) ==
    [name |-> n, command |-> c, parser |-> p, parser_template |-> t,
     parser_pattern |-> r]

cmdCpu == Cmd("show_cpu", "show processes cpu", "regex", None, PAT_HEALTH)
\* a second command under the name of cmdCpu
cmdCpuT == Cmd("show_cpu", "show processes cpu history", "textfsm", "cpu.tpl", None)
cmdRaw == Cmd("show_version", "show version", "raw", None, None)
\* a pattern command without a pattern: a structural defect
cmdNoPattern == Cmd("show_log", "show logging", "regex", None, None)

\* a templated command without a template: a structural defect
cmdNoTemplate == Cmd("show_env", "show environment", "textfsm", None, None)
\* a parser kind the parser engine does not have
cmdXml == Cmd("show_inventory", "show inventory", "xml", None, None)

CmdSet == {cmdCpu, cmdCpuT, cmdRaw, cmdNoPattern, cmdNoTemplate, cmdXml}

Rule(n, f, c, s, m) ==
    [name |-> n, field |-> f, condition |-> c, severity |-> s, message |-> m]

ruleCpu == Rule("cpu_ok", "cpu_5min", <<"<", " ", "9", "5">>, "critical", NoValue)
ruleStatus ==
    Rule("link_up", "status", <<"=", "=", " ", "'", "u", "p", "'">>, "warning",
         <<"link must be up">>)
ruleBadSeverity ==
    Rule("cpu_fatal", "cpu_5min", <<"<", " ", "9", "5">>, "fatal", NoValue)

RuleSeqs ==
    { <<>>, <<ruleCpu>>, <<ruleCpu, ruleStatus>>, <<ruleStatus, ruleCpu>>,
      <<ruleBadSeverity>>, <<ruleCpu, ruleBadSeverity>> }

\* the retry and parallelism fields have the defaults of _parse_pack
Header(n, o, m, c, t) ==
    [metadata |-> [name |-> n, operation_type |-> o],
     execution |-> [mode |-> m, retry_count |-> 2, retry_delay_seconds |-> 5,
                    parallel_execution |-> FALSE],
     authentication |-> [credential_ref |-> c, connection_type |-> t]]

\* header h with the retry and parallelism fields the pack file gives
WithRetry(h, count, delay, parallel) ==
    [h EXCEPT !.execution.retry_count = count,
              !.execution.retry_delay_seconds = delay,
              !.execution.parallel_execution = parallel]

HeaderSet ==
    { Header("health", "read", "observe", "lab", "ssh"),
      Header("health", "write", "observe", "lab", "ssh"),
      Header("health", "read", "execute", "lab", "ssh"),
      Header("health", "write", "execute", None, "telnet"),
      Header("health", "read", "audit", "lab", "ssh"),
      Header("health", "delete", "execute", "lab", "serial"),
      Header("", "read", "execute", "lab", "ssh"),
      WithRetry(Header("health", "read", "observe", "lab", "ssh"), 0, 0, TRUE),
      WithRetry(Header("health", "read", "execute", "lab", "ssh"), 3, 1, TRUE) }

CmdSeqs == UNION { [1..n -> CmdSet] : n \in 0..MaxCmds }

PackSet ==
    { [metadata |-> h.metadata, execution |-> h.execution,
       authentication |-> h.authentication,
       commands |-> cs, validations |-> vs] :
        h \in HeaderSet, cs \in CmdSeqs, vs \in RuleSeqs }

\* the content of a pack file: a document _parse_pack accepts, or one on
\* which yaml.safe_load or _parse_pack raises
PackFiles ==
    { [kind |-> "yaml", data |-> p] : p \in PackSet }
    \cup { [kind |-> "broken", data |-> NoPack] }

\* the packs directory holds the file health.yml, or it is empty
PackDirs == { [n \in {"health"} |-> f] : f \in PackFiles } \cup { <<>> }

PackNames == {"health"}

\* the entries of the inventory file
InventoryFile ==
    << [hostname |-> "core-rtr-01", platform |-> "ios", credential_ref |-> "lab",
        tags |-> <<"prod", "allow_execute">>],
       [hostname |-> "edge-sw-02", platform |-> "ios", credential_ref |-> "lab",
        tags |-> <<"prod">>],
       [hostname |-> "lab-fw-03", platform |-> "pfsense", credential_ref |-> "lab",
        tags |-> <<"allow_execute">>] >>

\* the device list a CMDB built on the inventory file holds
Inventory == _load_from_yaml(InventoryFile)

Hostnames == {"core-rtr-01", "edge-sw-02", "lab-fw-03", "ghost-rtr-09"}

OUT_OK == << <<"cpu", <<"9", "2">> >>, <<"status", <<"u", "p">> >> >>
\* two places where PAT_HEALTH matches
OUT_HOT ==
    << <<"cpu", <<"9", "7">> >>, <<"status", <<"d", "o", "w", "n">> >>,
       <<"cpu", <<"1", "2">> >>, <<"status", <<"u", "p">> >> >>
OUT_OTHER == << <<"uptime", <<"5">> >> >>
Outputs == {OUT_OK, OUT_HOT, OUT_OTHER}

\* send_command returns the output or raises (execute_command re-raises)
ExecOutcomes ==
    { [raised |-> FALSE, exc |-> NoExc, value |-> o] : o \in Outputs }
    \cup { [raised |-> TRUE, exc |-> Exc("ReadTimeout", <<"Pattern not detected">>),
            value |-> <<>>] }

---------------------------------------------------------------------------
(***************************************************************************)
(* State.  packs_dir and devices are the pack loader's directory and the   *)
(* CMDB's device list; the rest is one call of run_pack: its arguments,    *)
(* its position, its locals, the record it returns, and the calls it has   *)
(* made to its collaborators (calls), with the device session's state.     *)
(* unit is one direct call of an engine method (validate_pack,             *)
(* _execute_validation, _evaluate_condition): the method, its arguments    *)
(* and, once it has returned, its value.                                   *)
(* cmdb_file is the inventory file the CMDB was built from, heard the      *)
(* answers the collaborators gave to the current call, live the sessions   *)
(* open on the devices; replay and last are the answers and the record of  *)
(* a previous call, peer the locals of a second call on another thread,    *)
(* and sw the SolarWinds client.                                           *)
(***************************************************************************)
VARIABLES packs_dir, devices, pc, args, pack, device, connection, idx, output,
          results, exc, result, calls, session, unit,
          cmdb_file, heard, live, replay, last, peer, sw

vars == <<packs_dir, devices, pc, args, pack, device, connection, idx, output,
          results, exc, result, calls, session, unit,
          cmdb_file, heard, live, replay, last, peer, sw>>

NoArgs == [pack_name |-> None, device_hostname |-> None, dry_run |-> FALSE]

Call(op, n, ok) == [op |-> op, n |-> n, ok |-> ok]

NoUnit == [name |-> None, args |-> <<>>, done |-> FALSE, value |-> <<>>]

\* what a collaborator answered, and the session handle the call was made on
Heard(on, resp) == [on |-> on, resp |-> resp]

\* a variant for collaborators that are not mocked
ResponsesUnfixed(all) == all

\* the answers a collaborator can give: any of them, or, when the
\* collaborators are mocked with a fixed sequence of answers, the next one
Responses(all) ==
    IF Len(heard) < Len(replay) THEN {replay[Len(heard) + 1].resp} ELSE all

\* the locals of one call of run_pack
NoFrame ==
    [pc |-> "idle", args |-> NoArgs, pack |-> NoPack, device |-> NoDevice,
     connection |-> None, idx |-> 0, output |-> <<>>, results |-> <<>>,
     exc |-> NoExc, result |-> NoResult, calls |-> <<>>, session |-> "none",
     heard |-> <<>>]

NoClient == <<>>

\* a runner constructed on one of the packs directories dirs
InitOn(dirs) ==
    /\ unit = NoUnit
    /\ packs_dir \in dirs
    /\ devices = _load_from_yaml(InventoryFile)
    /\ pc = "idle"
    /\ args = NoArgs
    /\ pack = NoPack
    /\ device = NoDevice
    /\ connection = None
    /\ idx = 0
    /\ output = <<>>
    /\ results = <<>>
    /\ exc = NoExc
    /\ result = NoResult
    /\ calls = <<>>
    /\ session = "none"
    /\ cmdb_file = InventoryFile
    /\ heard = <<>>
    /\ live = {}
    /\ replay = <<>>
    /\ last = NoResult
    /\ peer = NoFrame
    /\ sw = NoClient

Init == InitOn(PackDirs)

\* run_pack is called: a new call starts once the previous one has ended
RunPack(pack_name, device_hostname, dry_run) ==
    /\ pc \in {"idle", "returned", "raised"}
    /\ pc' = "load"
    /\ args' = [pack_name |-> pack_name, device_hostname |-> device_hostname,
                dry_run |-> dry_run]
    /\ pack' = NoPack
    /\ device' = NoDevice
    /\ connection' = None
    /\ idx' = 0
    /\ output' = <<>>
    /\ results' = <<>>
    /\ exc' = NoExc
    /\ result' = NoResult
    /\ calls' = <<>>
    /\ session' = "none"
    /\ heard' = <<>>
    /\ UNCHANGED <<unit, cmdb_file, replay, last, peer, sw,
                   packs_dir, devices, live>>

\* load_pack and validate_pack (runner.py lines 89-98)
LoadPack ==
    /\ pc = "load"
    /\ calls' = Append(calls, Call("load_pack", 0,
                       args.pack_name \in DOMAIN packs_dir
                       /\ packs_dir[args.pack_name].kind = "yaml"))
    /\ IF args.pack_name \notin DOMAIN packs_dir
       THEN /\ exc' = Exc("FileNotFoundError", <<"Pack not found: ", args.pack_name>>)
            /\ pc' = "except"
            /\ UNCHANGED <<pack, result>>
       ELSE IF packs_dir[args.pack_name].kind = "broken"
       THEN /\ exc' = Exc("KeyError", <<"'metadata'">>)
            /\ pc' = "except"
            /\ UNCHANGED <<pack, result>>
       ELSE LET p == packs_dir[args.pack_name].data
                errors == validate_pack(p)
            IN  /\ pack' = p
                /\ exc' = exc
                /\ IF errors # <<>>
                   THEN /\ result' = _create_error_result(
                                         args.pack_name, args.device_hostname,
                                         PackInvalidMessage(errors))
                        /\ pc' = "returned"
                   ELSE /\ pc' = "lookup"
                        /\ result' = result
    /\ UNCHANGED <<unit, cmdb_file, replay, last, peer, sw,
                   packs_dir, devices, args, device, connection, idx, output,
                   results, session, heard, live>>

\* a variant that checks the policy gate before `if not device`
GetDeviceGateFirst ==
    /\ pc = "lookup"
    /\ LET d == get_device(devices, args.device_hostname)
           gate == policy_gate(pack, d)
       IN  /\ device' = d
           /\ calls' = Append(calls, Call("get_device", 0, d # NoDevice))
           /\ IF gate = "raise"
              THEN /\ exc' = Exc("AttributeError",
                                 <<"'NoneType' object has no attribute">>)
                   /\ pc' = "except"
                   /\ result' = result
              ELSE IF gate = "violation"
              THEN /\ result' = _create_error_result(
                                    args.pack_name, args.device_hostname,
                                    <<"Device ", args.device_hostname,
                                      " does not allow execution (missing 'allow_execute' tag)">>)
                   /\ pc' = "returned"
                   /\ exc' = exc
              ELSE IF DeviceMissing(d)
              THEN /\ result' = _create_error_result(
                                    args.pack_name, args.device_hostname,
                                    <<"Device not found in CMDB: ",
                                      args.device_hostname>>)
                   /\ pc' = "returned"
                   /\ exc' = exc
              ELSE /\ pc' = IF SkipsExecution(args.dry_run) THEN "validations"
                            ELSE "connect"
                   /\ UNCHANGED <<result, exc>>
    /\ UNCHANGED <<unit, cmdb_file, replay, last, peer, sw,
                   packs_dir, devices, args, pack, connection, idx, output,
                   results, session, heard, live>>

\* a variant whose lookup reads the inventory file again
GetDeviceReloading ==
    /\ pc = "lookup"
    /\ LET d == get_device(_load_from_yaml(cmdb_file), args.device_hostname)
           gate == policy_gate(pack, d)
       IN  /\ device' = d
           /\ calls' = Append(calls, Call("get_device", 0, d # NoDevice))
           /\ IF DeviceMissing(d)
              THEN /\ result' = _create_error_result(
                                    args.pack_name, args.device_hostname,
                                    <<"Device not found in CMDB: ",
                                      args.device_hostname>>)
                   /\ pc' = "returned"
                   /\ exc' = exc
              ELSE IF gate = "raise"
              THEN /\ exc' = Exc("AttributeError",
                                 <<"'NoneType' object has no attribute">>)
                   /\ pc' = "except"
                   /\ result' = result
              ELSE IF gate = "violation"
              THEN /\ result' = _create_error_result(
                                    args.pack_name, args.device_hostname,
                                    <<"Device ", args.device_hostname,
                                      " does not allow execution (missing 'allow_execute' tag)">>)
                   /\ pc' = "returned"
                   /\ exc' = exc
              ELSE /\ pc' = IF SkipsExecution(args.dry_run) THEN "validations"
                            ELSE "connect"
                   /\ UNCHANGED <<result, exc>>
    /\ UNCHANGED <<unit, cmdb_file, replay, last, peer, sw,
                   packs_dir, devices, args, pack, connection, idx, output,
                   results, session, heard, live>>

\* get_device, the policy gate and the dry-run branch (lines 100-120)
GetDevice ==
    /\ pc = "lookup"
    /\ LET d == get_device(devices, args.device_hostname)
           gate == policy_gate(pack, d)
       IN  /\ device' = d
           /\ calls' = Append(calls, Call("get_device", 0, d # NoDevice))
           /\ IF DeviceMissing(d)
              THEN /\ result' = _create_error_result(
                                    args.pack_name, args.device_hostname,
                                    <<"Device not found in CMDB: ",
                                      args.device_hostname>>)
                   /\ pc' = "returned"
                   /\ exc' = exc
              ELSE IF gate = "raise"
              THEN /\ exc' = Exc("AttributeError",
                                 <<"'NoneType' object has no attribute">>)
                   /\ pc' = "except"
                   /\ result' = result
              ELSE IF gate = "violation"
              THEN /\ result' = _create_error_result(
                                    args.pack_name, args.device_hostname,
                                    <<"Device ", args.device_hostname,
                                      " does not allow execution (missing 'allow_execute' tag)">>)
                   /\ pc' = "returned"
                   /\ exc' = exc
              ELSE /\ pc' = IF SkipsExecution(args.dry_run) THEN "validations"
                            ELSE "connect"
                   /\ UNCHANGED <<result, exc>>
    /\ UNCHANGED <<unit, cmdb_file, replay, last, peer, sw,
                   packs_dir, devices, args, pack, connection, idx, output,
                   results, session, heard, live>>

\* connection_manager.connect (lines 184-199)
Connect ==
    /\ pc = "connect"
    /\ \E env \in Responses(ConnectEnvs) :
         LET r == connect(device, pack.authentication.credential_ref, env)
         IN  /\ calls' = Append(calls, Call("connect", 0, ~r.raised /\ r.success))
             /\ heard' = Append(heard, Heard(None, env))
             /\ IF r.raised
                THEN /\ exc' = r.exc
                     /\ pc' = "finally"
                     /\ UNCHANGED <<connection, session, idx, live>>
                ELSE IF ~r.success
                THEN /\ exc' = Exc("RuntimeError",
                                   <<"Connection failed: ">> \o r.message)
                     /\ pc' = "finally"
                     /\ UNCHANGED <<connection, session, idx, live>>
                ELSE /\ connection' = r.connection
                     /\ session' = "open"
                     /\ live' = live \cup {r.connection}
                     /\ idx' = 1
                     /\ exc' = exc
                     /\ pc' = IF Len(pack.commands) >= 1 THEN "exec" ELSE "finally"
    /\ UNCHANGED <<unit, cmdb_file, replay, last, peer, sw,
                   packs_dir, devices, args, pack, device, output, results,
                   result>>

\* a variant that logs a failed command and goes on with the next one
ExecuteCommandAndContinue ==
    /\ pc = "exec"
    /\ \E r \in Responses(ExecOutcomes) :
         /\ calls' = Append(calls, Call("exec", idx, ~r.raised))
         /\ heard' = Append(heard, Heard(connection, r))
         /\ IF r.raised
            THEN /\ idx' = idx + 1
                 /\ pc' = IF idx + 1 <= Len(pack.commands) THEN "exec"
                          ELSE "finally"
                 /\ output' = output
            ELSE /\ output' = r.value
                 /\ pc' = "parse"
                 /\ idx' = idx
    /\ UNCHANGED <<unit, cmdb_file, replay, last, peer, sw,
                   packs_dir, devices, args, pack, device, connection, exc,
                   results, result, session, live>>

\* a variant that executes a failed command again, retry_count times
ExecuteCommandWithRetry ==
    /\ pc = "exec"
    /\ \E r \in Responses(ExecOutcomes) :
         /\ calls' = Append(calls, Call("exec", idx, ~r.raised))
         /\ heard' = Append(heard, Heard(connection, r))
         /\ IF r.raised
            THEN IF Cardinality({k \in DOMAIN calls :
                                   calls[k].op = "exec" /\ calls[k].n = idx})
                    < pack.execution.retry_count
                 THEN /\ pc' = "exec"
                      /\ UNCHANGED <<exc, output>>
                 ELSE /\ exc' = r.exc
                      /\ pc' = "finally"
                      /\ output' = output
            ELSE /\ output' = r.value
                 /\ pc' = "parse"
                 /\ exc' = exc
    /\ UNCHANGED <<unit, cmdb_file, replay, last, peer, sw,
                   packs_dir, devices, args, pack, device, connection, idx,
                   results, result, session, live>>

\* connection_manager.execute_command for command idx (lines 209-213)
ExecuteCommand ==
    /\ pc = "exec"
    /\ \E r \in Responses(ExecOutcomes) :
         /\ calls' = Append(calls, Call("exec", idx, ~r.raised))
         /\ heard' = Append(heard, Heard(connection, r))
         /\ IF r.raised
            THEN /\ exc' = r.exc
                 /\ pc' = "finally"
                 /\ output' = output
            ELSE /\ output' = r.value
                 /\ pc' = "parse"
                 /\ exc' = exc
    /\ UNCHANGED <<unit, cmdb_file, replay, last, peer, sw,
                   packs_dir, devices, args, pack, device, connection, idx,
                   results, result, session, live>>

\* parser_engine.parse for command idx and results[cmd.name] (lines 216-223)
ParseOutput ==
    /\ pc = "parse"
    /\ LET cmd == pack.commands[idx]
       IN  \E tf \in Responses(IF cmd.parser = "textfsm" THEN TfOutcomes
                               ELSE {"ok"}) :
             LET r == parse(output, cmd.parser, cmd.parser_template,
                            cmd.parser_pattern, tf)
             IN  /\ calls' = Append(calls, Call("parse", idx, ~r.raised))
                 /\ heard' = Append(heard, Heard(None, tf))
                 /\ IF r.raised
                    THEN /\ exc' = r.exc
                         /\ pc' = "finally"
                         /\ UNCHANGED <<results, idx>>
                    ELSE /\ results' = DictSet(results, cmd.name, r.value)
                         /\ idx' = idx + 1
                         /\ exc' = exc
                         /\ pc' = IF idx + 1 <= Len(pack.commands) THEN "exec"
                                  ELSE "finally"
    /\ output' = <<>>
    /\ UNCHANGED <<unit, cmdb_file, replay, last, peer, sw,
                   packs_dir, devices, args, pack, device, connection, result,
                   session, live>>

\* a variant whose manager closes every session it has opened
FinallyReleasingAll ==
    /\ pc = "finally"
    /\ IF ReleasesSession(connection, exc)
       THEN \E close_ok \in Responses(BOOLEAN) :
              /\ calls' = Append(calls, Call("disconnect", 0, close_ok))
              /\ heard' = Append(heard, Heard(connection, close_ok))
              /\ session' = IF close_ok THEN "closed" ELSE "lost"
              /\ live' = {}
              /\ exc' = IF DisconnectSwallows(close_ok) THEN exc ELSE CloseError
       ELSE UNCHANGED <<calls, session, heard, live, exc>>
    /\ pc' = IF exc' # NoExc THEN "except" ELSE "validations"
    /\ results' = IF exc' # NoExc THEN <<>> ELSE results
    /\ UNCHANGED <<unit, cmdb_file, replay, last, peer, sw,
                   packs_dir, devices, args, pack, device, connection, idx,
                   output, result>>

\* the finally clause of _execute_commands (lines 232-235); disconnect swallows
\* the failure of the session's own disconnect (connection.py lines 150-162)
Finally ==
    /\ pc = "finally"
    /\ IF ReleasesSession(connection, exc)
       THEN \E close_ok \in Responses(BOOLEAN) :
              /\ calls' = Append(calls, Call("disconnect", 0, close_ok))
              /\ heard' = Append(heard, Heard(connection, close_ok))
              /\ session' = IF close_ok THEN "closed" ELSE "lost"
              /\ live' = live \ {connection}
              /\ exc' = IF DisconnectSwallows(close_ok) THEN exc ELSE CloseError
       ELSE UNCHANGED <<calls, session, heard, live, exc>>
    /\ pc' = IF exc' # NoExc THEN "except" ELSE "validations"
    /\ results' = IF exc' # NoExc THEN <<>> ELSE results
    /\ UNCHANGED <<unit, cmdb_file, replay, last, peer, sw,
                   packs_dir, devices, args, pack, device, connection, idx,
                   output, result>>

\* a variant that hands out the record before the verdicts are in it
CompleteInTwoSteps ==
    /\ pc = "validations"
    /\ IF result = NoResult
       THEN /\ result' = ExecutionResult(args.pack_name, args.device_hostname,
                                         results, <<>>)
            /\ pc' = pc
       ELSE /\ result' = BuildResult(args.pack_name, args.device_hostname, pack,
                                     results)
            /\ pc' = "returned"
    /\ UNCHANGED <<unit, cmdb_file, replay, last, peer, sw,
                   packs_dir, devices, args, pack, device, connection, idx,
                   output, results, exc, calls, session, heard, live>>

\* validations, statistics and the record (lines 122-157)
Complete ==
    /\ pc = "validations"
    /\ result' = BuildResult(args.pack_name, args.device_hostname, pack, results)
    /\ pc' = "returned"
    /\ UNCHANGED <<unit, cmdb_file, replay, last, peer, sw,
                   packs_dir, devices, args, pack, device, connection, idx,
                   output, results, exc, calls, session, heard, live>>

\* the except clause of run_pack (lines 159-168)
Except ==
    /\ pc = "except"
    /\ IF Catches(exc)
       THEN /\ result' = _create_error_result(
                             args.pack_name, args.device_hostname,
                             <<"Execution error: ">> \o exc.msg)
            /\ pc' = "returned"
       ELSE /\ pc' = "raised"
            /\ result' = result
    /\ UNCHANGED <<unit, cmdb_file, replay, last, peer, sw,
                   packs_dir, devices, args, pack, device, connection, idx,
                   output, results, exc, calls, session, heard, live>>

Next ==
    \/ \E n \in PackNames, h \in Hostnames, d \in BOOLEAN : RunPack(n, h, d)
    \/ LoadPack
    \/ GetDevice
    \/ Connect
    \/ ExecuteCommand
    \/ ParseOutput
    \/ Finally
    \/ Complete
    \/ Except

Spec == Init /\ [][Next]_vars

\* run_pack is straight-line code around one loop over the commands: once
\* called, each step is taken as soon as the collaborator it waits for has
\* returned or raised.  Nothing obliges the caller to call run_pack.
FairPacks ==
    { [metadata |-> h.metadata, execution |-> h.execution,
       authentication |-> h.authentication,
       commands |-> cs, validations |-> <<ruleStatus>>] :
        h \in { Header("health", "read", "observe", "lab", "ssh"),
                Header("health", "read", "execute", "lab", "ssh") },
        cs \in { <<>>, <<cmdCpu, cmdRaw>>, <<cmdCpuT>>, <<cmdNoPattern>> } }

\* no pack file, a pack file that does not parse, or one of eight packs
\* with one rule
FairInit ==
    InitOn({ [n \in {"health"} |-> [kind |-> "yaml", data |-> p]] :
               p \in FairPacks }
           \cup { <<>>, [n \in {"health"} |->
                           [kind |-> "broken", data |-> NoPack]] })

FairSpec ==
    /\ FairInit
    /\ [][Next]_vars
    /\ WF_vars(LoadPack)
    /\ WF_vars(GetDevice)
    /\ WF_vars(Connect)
    /\ WF_vars(ExecuteCommand)
    /\ WF_vars(ParseOutput)
    /\ WF_vars(Finally)
    /\ WF_vars(Complete)
    /\ WF_vars(Except)

---------------------------------------------------------------------------
(***************************************************************************)
(* Between two calls of run_pack on one runner the pack file and the       *)
(* inventory file can be edited.  The runner and its CMDB stay the ones    *)
(* constructed at the start (runner.py lines 60-65, cmdb.py lines 65-87).  *)
(***************************************************************************)
\* the inventory file after an edit: 'allow_execute' taken from core-rtr-01,
\* edge-sw-02 removed, ghost-rtr-09 added without tags
InventoryFileEdited ==
    << [hostname |-> "core-rtr-01", platform |-> "ios", credential_ref |-> "lab",
        tags |-> <<"prod">>],
       [hostname |-> "lab-fw-03", platform |-> "pfsense", credential_ref |-> "lab",
        tags |-> <<"allow_execute">>],
       [hostname |-> "ghost-rtr-09", platform |-> "ios", credential_ref |-> "lab",
        tags |-> NoValue] >>

InventoryFiles == {InventoryFile, InventoryFileEdited}

\* a pack file written where there was none
NewPackFile ==
    [kind |-> "yaml",
     data |-> [metadata |-> [name |-> "health", operation_type |-> "read"],
               execution |-> [mode |-> "observe", retry_count |-> 1,
                              retry_delay_seconds |-> 1,
                              parallel_execution |-> FALSE],
               authentication |-> [credential_ref |-> "lab",
                                   connection_type |-> "ssh"],
               commands |-> <<cmdCpu>>,
               validations |-> <<ruleCpu>>]]

\* the edits of the packs directory: the file is removed, its execution mode
\* is changed, or a file is written where there was none
PackEdits(dir) ==
    IF "health" \notin DOMAIN dir
    THEN { [n \in {"health"} |-> NewPackFile] }
    ELSE { <<>> }
         \cup IF dir["health"].kind = "yaml"
              THEN { [dir EXCEPT !["health"].data.execution.mode =
                                    IF @ = "observe" THEN "execute"
                                    ELSE "observe"] }
              ELSE {}

\* the pack file is edited while no call is running
EditPack ==
    /\ pc \in {"idle", "returned", "raised"}
    /\ \E dir \in PackEdits(packs_dir) : packs_dir' = dir
    /\ pc' = "idle"
    /\ args' = NoArgs
    /\ pack' = NoPack
    /\ device' = NoDevice
    /\ connection' = None
    /\ idx' = 0
    /\ output' = <<>>
    /\ results' = <<>>
    /\ exc' = NoExc
    /\ result' = NoResult
    /\ calls' = <<>>
    /\ session' = "none"
    /\ heard' = <<>>
    /\ UNCHANGED <<unit, cmdb_file, replay, last, peer, sw, devices, live>>

\* the inventory file is edited while no call is running
EditInventory ==
    /\ pc \in {"idle", "returned", "raised"}
    /\ \E file \in InventoryFiles \ {cmdb_file} : cmdb_file' = file
    /\ pc' = "idle"
    /\ args' = NoArgs
    /\ pack' = NoPack
    /\ device' = NoDevice
    /\ connection' = None
    /\ idx' = 0
    /\ output' = <<>>
    /\ results' = <<>>
    /\ exc' = NoExc
    /\ result' = NoResult
    /\ calls' = <<>>
    /\ session' = "none"
    /\ heard' = <<>>
    /\ UNCHANGED <<unit, packs_dir, replay, last, peer, sw, devices, live>>

LifecycleNext ==
    \/ \E n \in PackNames, h \in Hostnames, d \in BOOLEAN : RunPack(n, h, d)
    \/ LoadPack
    \/ GetDevice
    \/ Connect
    \/ ExecuteCommand
    \/ ParseOutput
    \/ Finally
    \/ Complete
    \/ Except
    \/ EditPack
    \/ EditInventory

\* the runner is constructed on a packs directory whose pack, if it has one,
\* is made of the commands show_cpu and show_version and at most one rule
LifecycleInit ==
    /\ Init
    /\ "health" \in DOMAIN packs_dir /\ packs_dir["health"].kind = "yaml"
       => /\ \A k \in DOMAIN packs_dir["health"].data.commands :
               packs_dir["health"].data.commands[k] \in {cmdCpu, cmdRaw}
          /\ packs_dir["health"].data.validations \in {<<>>, <<ruleCpu>>}

LifecycleSpec == LifecycleInit /\ [][LifecycleNext]_vars

---------------------------------------------------------------------------
(***************************************************************************)
(* Two calls of run_pack on one runner, from two threads.  The variables   *)
(* pc .. heard are the locals of the call whose thread is running, peer    *)
(* holds the locals of the other call; the runner's collaborators          *)
(* (packs_dir, devices) and the device sessions (live) are shared.         *)
(***************************************************************************)
Frame ==
    [pc |-> pc, args |-> args, pack |-> pack, device |-> device,
     connection |-> connection, idx |-> idx, output |-> output,
     results |-> results, exc |-> exc, result |-> result, calls |-> calls,
     session |-> session, heard |-> heard]

\* a call starts, against a device the other call does not work on
Start(device_hostname, dry_run) ==
    /\ pc = "idle"
    /\ device_hostname # peer.args.device_hostname
    /\ RunPack("health", device_hostname, dry_run)

\* the scheduler runs the other thread
Switch ==
    /\ peer # Frame
    /\ pc' = peer.pc
    /\ args' = peer.args
    /\ pack' = peer.pack
    /\ device' = peer.device
    /\ connection' = peer.connection
    /\ idx' = peer.idx
    /\ output' = peer.output
    /\ results' = peer.results
    /\ exc' = peer.exc
    /\ result' = peer.result
    /\ calls' = peer.calls
    /\ session' = peer.session
    /\ heard' = peer.heard
    /\ peer' = Frame
    /\ UNCHANGED <<unit, cmdb_file, replay, last, sw, packs_dir, devices, live>>

\* the packs directory holds one of three packs of two commands
ConcPacks ==
    { [metadata |-> h.metadata, execution |-> h.execution,
       authentication |-> h.authentication,
       commands |-> cs, validations |-> <<ruleCpu, ruleStatus>>] :
        h \in { Header("health", "read", "observe", "lab", "ssh"),
                Header("health", "read", "execute", "lab", "ssh") },
        cs \in { <<cmdCpu, cmdRaw>>, <<cmdCpuT, cmdRaw>> } }

ConcInit ==
    /\ Init
    /\ packs_dir \in { [n \in {"health"} |-> [kind |-> "yaml", data |-> p]] :
                         p \in ConcPacks }

ConcNext ==
    \/ \E h \in Hostnames, d \in BOOLEAN : Start(h, d)
    \/ LoadPack
    \/ GetDevice
    \/ Connect
    \/ ExecuteCommand
    \/ ParseOutput
    \/ Finally
    \/ Complete
    \/ Except
    \/ Switch

ConcSpec == ConcInit /\ [][ConcNext]_vars

---------------------------------------------------------------------------
(***************************************************************************)
(* Two consecutive calls of run_pack with the same arguments, the second   *)
(* one against collaborators that give the answers of the first call again *)
(* (replay); last is the record of the first call.                         *)
(***************************************************************************)
\* the first call
RunFirst(pack_name, device_hostname, dry_run) ==
    /\ pc = "idle"
    /\ RunPack(pack_name, device_hostname, dry_run)

\* the second call: the arguments of the first, the answers of the first
RunAgain ==
    /\ pc = "returned"
    /\ last = NoResult
    /\ last' = result
    /\ replay' = heard
    /\ pc' = "load"
    /\ pack' = NoPack
    /\ device' = NoDevice
    /\ connection' = None
    /\ idx' = 0
    /\ output' = <<>>
    /\ results' = <<>>
    /\ exc' = NoExc
    /\ result' = NoResult
    /\ calls' = <<>>
    /\ session' = "none"
    /\ heard' = <<>>
    /\ UNCHANGED <<unit, cmdb_file, peer, sw, packs_dir, devices, args, live>>

ReplayNext ==
    \/ \E n \in PackNames, h \in Hostnames, d \in BOOLEAN : RunFirst(n, h, d)
    \/ RunAgain
    \/ LoadPack
    \/ GetDevice
    \/ Connect
    \/ ExecuteCommand
    \/ ParseOutput
    \/ Finally
    \/ Complete
    \/ Except

ReplaySpec == Init /\ [][ReplayNext]_vars

---------------------------------------------------------------------------
(***************************************************************************)
(* The connection manager called directly, outside run_pack: one connect,  *)
(* then disconnect on the handle it returned, more than once.  exc is what *)
(* the last call raised to its caller.                                     *)
(***************************************************************************)
MaxDisconnects == 2

DirectConnect(device_hostname, credential_ref) ==
    /\ pc = "idle"
    /\ get_device(devices, device_hostname) # NoDevice
    /\ \E env \in ConnectEnvs :
         LET r == connect(get_device(devices, device_hostname), credential_ref,
                          env)
         IN  /\ calls' = <<Call("connect", 0, ~r.raised /\ r.success)>>
             /\ exc' = r.exc
             /\ connection' = r.connection
             /\ session' = IF r.connection # None THEN "open" ELSE "none"
             /\ live' = IF r.connection # None THEN live \cup {r.connection}
                        ELSE live
    /\ device' = get_device(devices, device_hostname)
    /\ pc' = "direct"
    /\ UNCHANGED <<unit, cmdb_file, replay, last, peer, sw, packs_dir, devices,
                   args, pack, idx, output, results, result, heard>>

\* ConnectionManager.disconnect(connection) (connection.py lines 150-162)
DirectDisconnect ==
    /\ pc = "direct"
    /\ Len(calls) <= MaxDisconnects
    /\ IF connection # None
       THEN \E close_ok \in BOOLEAN :
              /\ calls' = Append(calls, Call("disconnect", 0, close_ok))
              /\ session' = IF close_ok THEN "closed"
                            ELSE IF session = "open" THEN "lost" ELSE session
              /\ live' = live \ {connection}
              /\ exc' = IF DisconnectSwallows(close_ok) THEN NoExc ELSE CloseError
       ELSE /\ calls' = Append(calls, Call("disconnect", 0, TRUE))
            /\ exc' = NoExc
            /\ UNCHANGED <<session, live>>
    /\ UNCHANGED <<unit, cmdb_file, replay, last, peer, sw, packs_dir, devices,
                   pc, args, pack, device, connection, idx, output, results,
                   result, heard>>

ReleaseNext ==
    \/ \E n \in PackNames, h \in Hostnames, d \in BOOLEAN : RunPack(n, h, d)
    \/ LoadPack
    \/ GetDevice
    \/ Connect
    \/ ExecuteCommand
    \/ ParseOutput
    \/ Finally
    \/ Complete
    \/ Except
    \/ \E h \in Hostnames, c \in {None, "lab", "ops"} : DirectConnect(h, c)
    \/ DirectDisconnect

ReleaseSpec == Init /\ [][ReleaseNext]_vars

---------------------------------------------------------------------------
(***************************************************************************)
(* The SolarWinds client's cache (integrations/solarwinds.py).  sw holds   *)
(* the client's _cache entries 'nodes' and 'custom_properties' (NoValue    *)
(* when the key is absent), _cache_timestamp, the clock datetime.now()     *)
(* reads, and the log of the calls made to the client.                     *)
(***************************************************************************)
MaxOps == 3
MaxClock == 3
\* config.cache_ttl, in seconds
CacheTtl == 2
\* _cache_timestamp = None
NoStamp == -1

NewClient ==
    [nodes |-> NoValue, props |-> NoValue, stamp |-> NoStamp, now |-> 0,
     log |-> <<>>]

NodeLists == {<<>>, <<"core-rtr-01">>, <<"core-rtr-01", "edge-sw-02">>}

\* _swql_query returns rows or raises ConnectionError
QueryOutcomes ==
    { [ok |-> TRUE, rows |-> l] : l \in NodeLists }
    \cup { [ok |-> FALSE, rows |-> <<>>] }

PropOutcomes == { [ok |-> TRUE, rows |-> <<"Tags">>], [ok |-> FALSE, rows |-> <<>>] }

Event(op, use_cache, queried, ok, value, at) ==
    [op |-> op, use_cache |-> use_cache, queried |-> queried, ok |-> ok,
     value |-> value, at |-> at]

\* a variant that also accepts an entry of exactly cache_ttl seconds
_is_cache_valid_inclusive(c) ==
    IF c.stamp = NoStamp THEN FALSE ELSE c.now - c.stamp <= CacheTtl

\* lines 98-104
_is_cache_valid(c) ==
    IF c.stamp = NoStamp THEN FALSE ELSE c.now - c.stamp < CacheTtl

\* discover_custom_properties (lines 131-161): what _cache['custom_properties']
\* holds afterwards; a failed query is swallowed and nothing is stored
discover_custom_properties(c, pr) ==
    IF c.props # NoValue THEN c.props
    ELSE IF pr.ok THEN pr.rows ELSE NoValue

\* get_all_nodes (lines 163-225)
GetAllNodes(use_cache) ==
    /\ Len(sw.log) < MaxOps
    /\ IF use_cache /\ _is_cache_valid(sw) /\ sw.nodes # NoValue
       THEN sw' = [sw EXCEPT !.log = Append(@, Event("get_all_nodes", use_cache,
                                                     FALSE, TRUE, sw.nodes,
                                                     sw.now))]
       ELSE \E pr \in PropOutcomes, q \in QueryOutcomes :
              sw' = IF q.ok
                    THEN [sw EXCEPT !.props = discover_custom_properties(sw, pr),
                                    !.nodes = q.rows,
                                    !.stamp = sw.now,
                                    !.log = Append(@, Event("get_all_nodes",
                                                            use_cache, TRUE, TRUE,
                                                            q.rows, sw.now))]
                    ELSE [sw EXCEPT !.props = discover_custom_properties(sw, pr),
                                    !.log = Append(@, Event("get_all_nodes",
                                                            use_cache, TRUE, FALSE,
                                                            <<>>, sw.now))]
    /\ UNCHANGED <<unit, cmdb_file, replay, last, peer, packs_dir, devices, pc,
                   args, pack, device, connection, idx, output, results, exc,
                   result, calls, session, heard, live>>

\* clear_cache (lines 346-350)
ClearCache ==
    /\ Len(sw.log) < MaxOps
    /\ sw' = [sw EXCEPT !.nodes = NoValue, !.props = NoValue, !.stamp = NoStamp,
                        !.log = Append(@, Event("clear_cache", FALSE, FALSE, TRUE,
                                                <<>>, sw.now))]
    /\ UNCHANGED <<unit, cmdb_file, replay, last, peer, packs_dir, devices, pc,
                   args, pack, device, connection, idx, output, results, exc,
                   result, calls, session, heard, live>>

\* a second passes
Tick ==
    /\ sw.now < MaxClock
    /\ sw' = [sw EXCEPT !.now = @ + 1]
    /\ UNCHANGED <<unit, cmdb_file, replay, last, peer, packs_dir, devices, pc,
                   args, pack, device, connection, idx, output, results, exc,
                   result, calls, session, heard, live>>

CacheInit ==
    /\ sw = NewClient
    /\ unit = NoUnit
    /\ packs_dir = <<>>
    /\ devices = <<>>
    /\ pc = "idle"
    /\ args = NoArgs
    /\ pack = NoPack
    /\ device = NoDevice
    /\ connection = None
    /\ idx = 0
    /\ output = <<>>
    /\ results = <<>>
    /\ exc = NoExc
    /\ result = NoResult
    /\ calls = <<>>
    /\ session = "none"
    /\ cmdb_file = <<>>
    /\ heard = <<>>
    /\ live = {}
    /\ replay = <<>>
    /\ last = NoResult
    /\ peer = NoFrame

CacheNext ==
    \/ \E use_cache \in BOOLEAN : GetAllNodes(use_cache)
    \/ ClearCache
    \/ Tick

CacheSpec == CacheInit /\ [][CacheNext]_vars

---------------------------------------------------------------------------
(***************************************************************************)
(* The engines called directly.  An engine method is a function of its     *)
(* arguments, so one call is two states: the arguments drawn from the      *)
(* input sets below, then the value it returns.  run_pack is not running.  *)
(***************************************************************************)
Unit(name, a) == [name |-> name, args |-> a, done |-> FALSE, value |-> <<>>]

Dict(v) == [type |-> "dict", value |-> v]
List(v) == [type |-> "list", value |-> v]

\* parsed command outputs: what parse_regex, parse_textfsm and parse_raw return
dictBoth == Dict([cpu_5min |-> <<"9", "2">>, status |-> <<"u", "p">>])
dictStatus == Dict([status |-> <<"d", "o", "w", "n">>])
\* a key that contains a dot
dictDotted == Dict([f \in {"sys.uptime"} |-> <<"5">>])
\* a mapping under the key sys: for float() and str() a value that is not
\* text is what its repr is, {'uptime': '7'}
dictNested ==
    Dict([f \in {"sys"} |->
            <<"{", "'", "u", "p", "t", "i", "m", "e", "'", ":", " ", "'", "7",
              "'", "}">>])
\* two rows of a template with the values CPU_5MIN and STATUS
listRows ==
    List(<< [cpu_5min |-> <<"9", "7">>, status |-> <<"u", "p">>],
            [cpu_5min |-> <<"1", "2">>, status |-> <<"d", "o", "w", "n">>] >>)
rawText == [type |-> "str", value |-> OUT_OK]

ParsedValues ==
    {dictBoth, dictStatus, dictDotted, dictNested, Dict(EmptyDict), listRows,
     List(<<>>), rawText}

\* command-result mappings: entry k is the result stored under the k-th key
ParsedDatas ==
    UNION { { [k \in 1..n |-> <<ToString(k), f[k]>>] : f \in [1..n -> ParsedValues] } :
            n \in 0..MaxResults }

Fields == {"cpu_5min", "status", "sys", "sys.uptime", "interfaces[0].status"}

ExecuteValidationInputs ==
    { Unit("_execute_validation",
           [validation |-> Rule("check", f, <<"<", " ", "9", "5">>, "critical", NoValue),
            parsed_data |-> pd]) :
        f \in Fields, pd \in ParsedDatas }

(***************************************************************************)
(* Condition texts: padding, an operator, a gap, a literal, padding.       *)
(***************************************************************************)
ListedOps ==
    {<<"<">>, <<"<", "=">>, <<">">>, <<">", "=">>, <<"=", "=">>, <<"=">>,
     <<"!", "=">>}
OtherOps == {<<>>, <<"<", ">">>, <<"=", "=", "=">>, <<"!">>, <<"=", "<">>}
Pads == {<<>>, <<" ">>}

NumberLiterals ==
    {<<"9", "5">>, <<"9", "5", ".", "0">>, <<"9", "2", ".">>, <<"-", "9", ".", "5">>}
QuotedLiterals ==
    {<<"'", "u", "p", "'">>, <<"\"", "u", "p", "\"">>, <<"'", "u", "p", "\"">>,
     <<"'", "d", "o", "w", "n", "'">>, <<"'", "'">>, <<"'", "9", "5", "'">>}
OtherLiterals == {<<>>, <<"u", "p">>, <<"'", "u", "p">>, <<"9", "5", "%">>, <<"-">>}

ConditionText(pad, op, gap, lit) == pad \o op \o gap \o lit \o pad

Conditions ==
    { ConditionText(pad, op, gap, lit) :
        pad \in Pads, op \in ListedOps \cup OtherOps, gap \in Pads,
        lit \in NumberLiterals \cup QuotedLiterals \cup OtherLiterals }

\* values a parsed field can have: text that float() accepts, other text
NumberTexts ==
    {<<"9", "2">>, <<"9", "5">>, <<"9", "7">>, <<"9", "5", ".", "0">>,
     <<"-", "9", ".", "5">>, <<" ", "9", "5", " ">>, <<"+", "9", "5">>, <<".", "5">>}
OtherTexts ==
    {<<"u", "p">>, <<"d", "o", "w", "n">>, <<>>, <<"'", "u", "p", "'">>,
     <<"9", "5", "%">>}
ActualValues == NumberTexts \cup OtherTexts \cup {NoValue}

EvaluateConditionInputs ==
    { Unit("_evaluate_condition", [actual_value |-> a, condition |-> c]) :
        a \in ActualValues, c \in Conditions }

\* three rules with one condition, on a value below, at and above 95
ThresholdRules(c) ==
    << Rule("low", "cpu_low", c, "warning", NoValue),
       Rule("at", "cpu_at", c, "warning", NoValue),
       Rule("high", "cpu_high", c, "critical", NoValue) >>

ThresholdData ==
    << <<"show_cpu",
         Dict([cpu_low |-> <<"9", "2">>, cpu_at |-> <<"9", "5">>,
               cpu_high |-> <<"9", "7">>])>> >>

ValidateInputs ==
    { Unit("validate",
           [validations |-> ThresholdRules(ConditionText(pad, op, gap, <<"9", "5">>)),
            parsed_data |-> ThresholdData]) :
        pad \in Pads, op \in ListedOps \cup OtherOps, gap \in Pads }

(***************************************************************************)
(* Packs for validate_pack: well-formed packs, and each of them with one   *)
(* field corrupted (empty, null, or a value outside its enumeration).      *)
(***************************************************************************)
FullPack(h, cs, vs) ==
    [metadata |-> [name |-> h.metadata.name, display_name |-> "Health check",
                   description |-> "CPU and link state", version |-> "1.0.0",
                   operation_type |-> h.metadata.operation_type],
     execution |-> h.execution,
     authentication |-> h.authentication,
     commands |-> cs,
     validations |-> vs]

WellFormedPacks ==
    { FullPack(h, cs, vs) :
        h \in { Header("health", "read", "observe", "lab", "ssh"),
                Header("health", "write", "execute", "lab", "api") },
        cs \in { <<cmdCpu>>, <<cmdCpuT, cmdRaw>>, <<cmdRaw, cmdCpu>> },
        vs \in { <<ruleCpu>>, <<ruleStatus, ruleCpu>> } }

\* the fields validate_pack looks at, and required fields it does not look at
CheckedFields ==
    {"metadata.name", "metadata.operation_type", "execution.mode",
     "authentication.connection_type", "commands", "command.parser",
     "command.parser_template", "command.parser_pattern", "validation.severity"}
UncheckedFields ==
    {"metadata.display_name", "metadata.description", "metadata.version",
     "authentication.credential_ref", "command.name", "command.command",
     "validation.name", "validation.field", "validation.condition"}

CorruptValues(field) ==
    CASE field \in {"metadata.operation_type", "execution.mode",
                    "authentication.connection_type", "command.parser",
                    "validation.severity"} -> {None, "", "bogus"}
      [] field \in {"commands", "validation.condition"} -> {""}
      [] OTHER -> {None, ""}

\* a corruption of field `field` (of command or rule k) to `value`; the
\* empty value of the command list and of a condition is the empty sequence
Corruptions ==
    { [field |-> f, k |-> k, value |-> v] :
        f \in CheckedFields \cup UncheckedFields, k \in 1..2,
        v \in {None, "", "bogus"} }

Applies(c, p) ==
    /\ c.value \in CorruptValues(c.field)
    /\ CASE c.field \in {"command.name", "command.command", "command.parser"} ->
              c.k <= Len(p.commands)
         [] c.field = "command.parser_template" ->
              c.k <= Len(p.commands) /\ p.commands[c.k].parser = "textfsm"
         [] c.field = "command.parser_pattern" ->
              c.k <= Len(p.commands) /\ p.commands[c.k].parser = "regex"
         [] c.field \in {"validation.name", "validation.field",
                         "validation.condition", "validation.severity"} ->
              c.k <= Len(p.validations)
         [] OTHER -> c.k = 1

Corrupt(p, c) ==
    CASE c.field = "metadata.name" -> [p EXCEPT !.metadata.name = c.value]
      [] c.field = "metadata.display_name" ->
           [p EXCEPT !.metadata.display_name = c.value]
      [] c.field = "metadata.description" ->
           [p EXCEPT !.metadata.description = c.value]
      [] c.field = "metadata.version" -> [p EXCEPT !.metadata.version = c.value]
      [] c.field = "metadata.operation_type" ->
           [p EXCEPT !.metadata.operation_type = c.value]
      [] c.field = "execution.mode" -> [p EXCEPT !.execution.mode = c.value]
      [] c.field = "authentication.credential_ref" ->
           [p EXCEPT !.authentication.credential_ref = c.value]
      [] c.field = "authentication.connection_type" ->
           [p EXCEPT !.authentication.connection_type = c.value]
      [] c.field = "commands" -> [p EXCEPT !.commands = <<>>]
      [] c.field = "command.name" -> [p EXCEPT !.commands[c.k].name = c.value]
      [] c.field = "command.command" ->
           [p EXCEPT !.commands[c.k].command = c.value]
      [] c.field = "command.parser" -> [p EXCEPT !.commands[c.k].parser = c.value]
      [] c.field = "command.parser_template" ->
           [p EXCEPT !.commands[c.k].parser_template = c.value]
      [] c.field = "command.parser_pattern" ->
           [p EXCEPT !.commands[c.k].parser_pattern = c.value]
      [] c.field = "validation.name" ->
           [p EXCEPT !.validations[c.k].name = c.value]
      [] c.field = "validation.field" ->
           [p EXCEPT !.validations[c.k].field = c.value]
      [] c.field = "validation.condition" ->
           [p EXCEPT !.validations[c.k].condition = <<>>]
      [] c.field = "validation.severity" ->
           [p EXCEPT !.validations[c.k].severity = c.value]

ValidatePackInputs ==
    { Unit("validate_pack", [pack |-> p]) : p \in WellFormedPacks }
    \cup UNION { { Unit("validate_pack", [pack |-> Corrupt(p, c)]) :
                      c \in {x \in Corruptions : Applies(x, p)} } :
                    p \in WellFormedPacks }

EngineInputs ==
    ExecuteValidationInputs \cup EvaluateConditionInputs \cup ValidateInputs
    \cup ValidatePackInputs

EngineInit ==
    /\ unit \in EngineInputs
    /\ packs_dir = <<>>
    /\ devices = _load_from_yaml(InventoryFile)
    /\ pc = "idle"
    /\ args = NoArgs
    /\ pack = NoPack
    /\ device = NoDevice
    /\ connection = None
    /\ idx = 0
    /\ output = <<>>
    /\ results = <<>>
    /\ exc = NoExc
    /\ result = NoResult
    /\ calls = <<>>
    /\ session = "none"
    /\ cmdb_file = InventoryFile
    /\ heard = <<>>
    /\ live = {}
    /\ replay = <<>>
    /\ last = NoResult
    /\ peer = NoFrame
    /\ sw = NoClient

Return(v) ==
    /\ unit' = [unit EXCEPT !.done = TRUE, !.value = v]
    /\ UNCHANGED <<packs_dir, devices, pc, args, pack, device, connection, idx,
                   output, results, exc, result, calls, session,
                   cmdb_file, heard, live, replay, last, peer, sw>>

\* ValidationEngine._execute_validation(validation, parsed_data)
ExecuteValidation ==
    /\ unit.name = "_execute_validation"
    /\ ~unit.done
    /\ Return(_execute_validation(unit.args.validation, unit.args.parsed_data))

\* ValidationEngine._evaluate_condition(actual_value, condition)
EvaluateCondition ==
    /\ unit.name = "_evaluate_condition"
    /\ ~unit.done
    /\ Return(_evaluate_condition(unit.args.actual_value, unit.args.condition))

\* ValidationEngine.validate(validations, parsed_data)
Validate ==
    /\ unit.name = "validate"
    /\ ~unit.done
    /\ Return(validate(unit.args.validations, unit.args.parsed_data))

\* PackLoader.validate_pack(pack)
ValidatePack ==
    /\ unit.name = "validate_pack"
    /\ ~unit.done
    /\ Return(validate_pack(unit.args.pack))

EngineNext ==
    \/ ExecuteValidation
    \/ EvaluateCondition
    \/ Validate
    \/ ValidatePack

EngineSpec == EngineInit /\ [][EngineNext]_vars

---------------------------------------------------------------------------
(***************************************************************************)
(* Properties.  calls is the history of the current call of run_pack, so   *)
(* a statement about the order of collaborator calls is a predicate on it. *)
(***************************************************************************)
CountOp(op) == Cardinality({k \in DOMAIN calls : calls[k].op = op})
Called(op) == \E k \in DOMAIN calls : calls[k].op = op
Acquired == \E k \in DOMAIN calls : calls[k].op = "connect" /\ calls[k].ok
Ended == pc \in {"returned", "raised"}
Started == pc # "idle"

\* command k of the pack was executed and parsed without raising
RanCommand(k) ==
    /\ \E j \in DOMAIN calls : calls[j] = Call("exec", k, TRUE)
    /\ \E j \in DOMAIN calls : calls[j] = Call("parse", k, TRUE)

Target == get_device(devices, args.device_hostname)
PackLoaded == pack # NoPack
PackValid == PackLoaded /\ validate_pack(pack) = <<>>

\* d occurs in msg as a run of consecutive parts
Contains(msg, d) ==
    \E k \in 1..(Len(msg) - Len(d) + 1) : SubSeq(msg, k, k + Len(d) - 1) = d

PolicyMessage ==
    <<"Device ", args.device_hostname,
      " does not allow execution (missing 'allow_execute' tag)">>

(***************************************************************************)
(* C1: on every exit path of a run a session that connect yielded is       *)
(* released by exactly one disconnect call before run returns, no exec     *)
(* follows the disconnect, and without a session disconnect is never       *)
(* called.                                                                 *)
(***************************************************************************)
C1_SessionReleasedOnce ==
    /\ CountOp("disconnect") <= 1
    /\ \A j, k \in DOMAIN calls :
         calls[j].op = "disconnect" /\ calls[k].op = "exec" => k < j
    /\ ~Acquired => CountOp("disconnect") = 0
    /\ Ended /\ Acquired => CountOp("disconnect") = 1

\* a run that returned after a command raised on an acquired session
C1_Witness ==
    /\ pc = "returned"
    /\ Acquired
    /\ exc.type = "ReadTimeout"
    /\ CountOp("disconnect") = 1

(***************************************************************************)
(* C2: when executing or parsing command k raises, nothing is executed or  *)
(* parsed after it, the run returns a failure record (success false, error *)
(* set) without any command result, and the session is disconnected        *)
(* exactly once.                                                           *)
(***************************************************************************)
C2_AbortOnCommandFailure ==
    \A j \in DOMAIN calls :
        calls[j].op \in {"exec", "parse"} /\ ~calls[j].ok =>
          /\ \A m \in (j + 1)..Len(calls) : calls[m].op \notin {"exec", "parse"}
          /\ Ended =>
               /\ pc = "returned"
               /\ result.success = FALSE
               /\ result.error # NoValue
               /\ result.command_results = <<>>
               /\ result.commands_executed = 0
               /\ CountOp("disconnect") = 1

\* the second of two commands raised after the first one had been stored
C2_Witness ==
    /\ pc = "returned"
    /\ Len(pack.commands) = 2
    /\ RanCommand(1)
    /\ \E j \in DOMAIN calls : calls[j].n = 2 /\ ~calls[j].ok
    /\ result.success = FALSE

(***************************************************************************)
(* C3 as stated: every run of an execute-mode pack against a device that   *)
(* lacks 'allow_execute' ends with the policy-violation failure, with no   *)
(* connect and no exec.                                                    *)
(***************************************************************************)
C3_Original ==
    (/\ pc = "returned"
     /\ pack.execution.mode = "execute"
     /\ Target # NoDevice
     /\ ~allows_execution(Target))
    => /\ result.success = FALSE
       /\ result.error = PolicyMessage
       /\ ~Called("connect")
       /\ ~Called("exec")

(***************************************************************************)
(* C3, amended: for an execute-mode pack and a device that lacks           *)
(* 'allow_execute', no connect and no exec is ever made, and when the pack *)
(* passes structural validation the run ends with the policy-violation     *)
(* failure; whenever connect is called for an execute-mode pack, the       *)
(* device carries the marker.                                              *)
(***************************************************************************)
C3_PolicyGate ==
    /\ (/\ pack.execution.mode = "execute"
        /\ Target # NoDevice
        /\ ~allows_execution(Target))
       => /\ ~Called("connect")
          /\ ~Called("exec")
          /\ Ended /\ PackValid =>
               /\ pc = "returned"
               /\ result.success = FALSE
               /\ result.error = PolicyMessage
    /\ Called("connect") /\ pack.execution.mode = "execute"
       => allows_execution(device)

\* a real (not dry) run that the gate stopped
C3_Witness ==
    /\ pc = "returned"
    /\ ~args.dry_run
    /\ pack.execution.mode = "execute"
    /\ Target # NoDevice
    /\ ~allows_execution(Target)
    /\ result.error = PolicyMessage

(***************************************************************************)
(* C4: a dry run never calls connect, exec or disconnect, and with a valid *)
(* pack, a known device and a passing policy gate it returns success =     *)
(* true, zero commands executed and an empty command-result mapping.       *)
(***************************************************************************)
C4_DryRunOpensNothing ==
    args.dry_run =>
      /\ ~Called("connect")
      /\ ~Called("exec")
      /\ ~Called("disconnect")
      /\ (/\ Ended
          /\ PackValid
          /\ Target # NoDevice
          /\ policy_gate(pack, Target) = "pass")
         => /\ pc = "returned"
            /\ result.success = TRUE
            /\ result.commands_executed = 0
            /\ result.command_results = <<>>

\* a dry run of an execute-mode pack that passed every gate
C4_Witness ==
    /\ pc = "returned"
    /\ args.dry_run
    /\ pack.execution.mode = "execute"
    /\ Len(pack.commands) = 2
    /\ result.success = TRUE

(***************************************************************************)
(* C5 as stated: in a dry run of a pack that declares rules, the record    *)
(* holds one failing verdict with an absent actual value per declared      *)
(* rule.                                                                   *)
(***************************************************************************)
C5_Original ==
    (/\ pc = "returned"
     /\ args.dry_run
     /\ result.success
     /\ pack.validations # <<>>)
    => /\ Len(result.validation_results) = Len(pack.validations)
       /\ \A k \in DOMAIN result.validation_results :
            /\ result.validation_results[k].passed = FALSE
            /\ result.validation_results[k].actual = NoValue

(***************************************************************************)
(* C5, amended: in a dry run no rule is evaluated, whatever rules the pack *)
(* declares: the record's verdict sequence is empty and both validation    *)
(* counts are 0.                                                           *)
(***************************************************************************)
C5_DryRunNoVerdicts ==
    (pc = "returned" /\ args.dry_run)
    => /\ result.validation_results = <<>>
       /\ result.validations_passed = 0
       /\ result.validations_failed = 0

\* a successful dry run of a pack with two rules
C5_Witness ==
    /\ pc = "returned"
    /\ args.dry_run
    /\ result.success
    /\ Len(pack.validations) = 2

(***************************************************************************)
(* C6: run never propagates an exception: whatever stage fails, the caller *)
(* receives a record with success = false and a non-empty error, of one of *)
(* a closed set of kinds.                                                  *)
(***************************************************************************)
StageFailed ==
    \/ exc # NoExc
    \/ \E k \in DOMAIN calls : calls[k].op # "disconnect" /\ ~calls[k].ok
    \/ PackLoaded /\ validate_pack(pack) # <<>>

ErrorKinds ==
    {"Pack validation failed: ", "Device not found in CMDB: ", "Device ",
     "Execution error: "}

C6_NeverRaises ==
    /\ pc # "raised"
    /\ (pc = "returned" /\ StageFailed)
       => /\ result.success = FALSE
          /\ result.error # NoValue
          /\ result.error # <<>>
          /\ result.error[1] \in ErrorKinds

\* the pack file could not be parsed and the run still returned a record
C6_Witness ==
    /\ pc = "returned"
    /\ exc.type = "KeyError"
    /\ result.error[1] = "Execution error: "

(***************************************************************************)
(* C7 as stated: when the pack definition or the device is missing, run    *)
(* does not return a record (the condition reaches the caller as a typed   *)
(* error).                                                                 *)
(***************************************************************************)
C7_Original ==
    (/\ Started
     /\ \/ args.pack_name \notin DOMAIN packs_dir
        \/ Target = NoDevice)
    => pc # "returned"

(***************************************************************************)
(* C7, amended: when no pack definition exists for the pack name, or the   *)
(* pack is loaded and valid and no device has the hostname, run returns a  *)
(* record with success = false whose error names the condition; nothing is *)
(* raised to the caller.                                                   *)
(***************************************************************************)
C7_MissingIsARecord ==
    Ended =>
      /\ args.pack_name \notin DOMAIN packs_dir
         => /\ pc = "returned"
            /\ result.success = FALSE
            /\ result.error =
                 <<"Execution error: ", "Pack not found: ", args.pack_name>>
      /\ PackValid /\ Target = NoDevice
         => /\ pc = "returned"
            /\ result.success = FALSE
            /\ result.error =
                 <<"Device not found in CMDB: ", args.device_hostname>>

\* a valid pack run against a hostname the inventory does not have
C7_Witness ==
    /\ pc = "returned"
    /\ PackValid
    /\ Target = NoDevice
    /\ Called("get_device")
    /\ result.success = FALSE

(***************************************************************************)
(* C8: when structural validation returns defects the run ends with a      *)
(* failure whose error contains every defect, and no device lookup, no     *)
(* connect and no exec is made.                                            *)
(***************************************************************************)
C8_PackInvalid ==
    (PackLoaded /\ validate_pack(pack) # <<>>)
    => /\ ~Called("get_device")
       /\ ~Called("connect")
       /\ ~Called("exec")
       /\ Ended =>
            /\ pc = "returned"
            /\ result.success = FALSE
            /\ result.error[1] = "Pack validation failed: "
            /\ \A k \in DOMAIN validate_pack(pack) :
                 Contains(result.error, validate_pack(pack)[k])

\* a pack with at least three defects was reported
C8_Witness ==
    /\ pc = "returned"
    /\ PackLoaded
    /\ Len(validate_pack(pack)) >= 3
    /\ result.success = FALSE

(***************************************************************************)
(* C9: the success flag does not depend on the verdicts: when the gates    *)
(* pass and every declared command is executed and parsed without raising, *)
(* the run returns success = true and no error, however many rules fail.   *)
(***************************************************************************)
C9_SuccessIgnoresVerdicts ==
    (/\ pc = "returned"
     /\ PackValid
     /\ \A k \in DOMAIN pack.commands : RanCommand(k))
    => /\ result.success = TRUE
       /\ result.error = NoValue

\* every declared command ran and every one of two rules failed
C9_Witness ==
    /\ pc = "returned"
    /\ PackValid
    /\ \A k \in DOMAIN pack.commands : RanCommand(k)
    /\ Len(result.validation_results) = 2
    /\ result.validations_failed = 2
    /\ result.success = TRUE

(***************************************************************************)
(* C10: when rules are declared and the command-result mapping is not      *)
(* empty, the record has exactly one verdict per declared rule, in the     *)
(* declared order, validations_passed is the number of verdicts that       *)
(* passed, and passed + failed is the number of verdicts.                  *)
(***************************************************************************)
C10_OneVerdictPerRule ==
    (/\ pc = "returned"
     /\ pack.validations # <<>>
     /\ result.command_results # <<>>)
    => /\ Len(result.validation_results) = Len(pack.validations)
       /\ \A k \in DOMAIN pack.validations :
            /\ result.validation_results[k].validation_name = pack.validations[k].name
            /\ result.validation_results[k].field = pack.validations[k].field
            /\ result.validation_results[k].expected = pack.validations[k].condition
       /\ result.validations_passed =
            Cardinality({k \in DOMAIN result.validation_results :
                            result.validation_results[k].passed})
       /\ result.validations_passed + result.validations_failed =
            Len(result.validation_results)

\* two rules, one verdict passed and the other failed
C10_Witness ==
    /\ pc = "returned"
    /\ Len(pack.validations) = 2
    /\ Len(result.validation_results) = 2
    /\ result.validations_passed = 1
    /\ result.validations_failed = 1

(***************************************************************************)
(* C11: the actual value of a rule with field f is the value found in the  *)
(* first entry of the command-result mapping, in its order, that yields a  *)
(* value for f: a mapping is looked up under the literal key f, a list of  *)
(* mappings in its first element only, raw text yields nothing; when no    *)
(* entry yields a value the verdict has actual = absent and passed =       *)
(* false.                                                                  *)
(***************************************************************************)
Lookup(parsed, f) ==
    CASE parsed.type = "dict" ->
           IF f \in DOMAIN parsed.value THEN parsed.value[f] ELSE NoValue
      [] parsed.type = "list" ->
           IF parsed.value # <<>> /\ f \in DOMAIN parsed.value[1]
           THEN parsed.value[1][f] ELSE NoValue
      [] OTHER -> NoValue

Hits(pd, f) == {k \in DOMAIN pd : Lookup(pd[k][2], f) # NoValue}

Evaluated == unit.name = "_evaluate_condition" /\ unit.done

NumericForm(op, lit) ==
    /\ op # <<>>
    /\ \A k \in DOMAIN op : op[k] \in {"<", ">", "=", "!"}
    /\ lit \in NumberLiterals

StringForm(op, lit) ==
    /\ op # <<>>
    /\ \A k \in DOMAIN op : op[k] \in {"=", "!"}
    /\ lit \in QuotedLiterals

C12_EvaluatorTotal ==
    Evaluated =>
      /\ unit.value \in BOOLEAN
      /\ unit.args.actual_value = NoValue => unit.value = FALSE
      /\ \A pad \in Pads, op \in ListedOps \cup OtherOps, gap \in Pads,
            lit \in NumberLiterals \cup QuotedLiterals \cup OtherLiterals :
           (/\ unit.args.condition = ConditionText(pad, op, gap, lit)
            /\ \/ ~NumericForm(op, lit) /\ ~StringForm(op, lit)
               \/ op \notin ListedOps)
           => unit.value = FALSE

\* 92 against "<>95": a numeric form whose operator is not a listed one
C12_Witness ==
    /\ Evaluated
    /\ unit.args.actual_value = <<"9", "2">>
    /\ unit.args.condition = <<"<", ">", "9", "5">>
    /\ unit.value = FALSE

(***************************************************************************)
(* C13: for a listed operator followed by a signed decimal literal n and a *)
(* present actual value a, the verdict is the named comparison of a with n *)
(* when a is a number ('=' as '=='), and FAIL for every operator, '!='     *)
(* included, when a is not a number.                                       *)
(***************************************************************************)
\* the number a text stands for, in tenths
Tenths(t) ==
    CASE t = <<"9", "2">> -> 920
      [] t = <<"9", "2", ".">> -> 920
      [] t = <<"9", "5">> -> 950
      [] t = <<"9", "5", ".", "0">> -> 950
      [] t = <<" ", "9", "5", " ">> -> 950
      [] t = <<"+", "9", "5">> -> 950
      [] t = <<"9", "7">> -> 970
      [] t = <<"-", "9", ".", "5">> -> 0 - 95
      [] t = <<".", "5">> -> 5

Holds(op, x, y) ==
    CASE op = <<"<">> -> x < y
      [] op = <<"<", "=">> -> x <= y
      [] op = <<">">> -> x > y
      [] op = <<">", "=">> -> x >= y
      [] op = <<"=", "=">> -> x = y
      [] op = <<"=">> -> x = y
      [] op = <<"!", "=">> -> x # y

C13_NumericComparison ==
    (Evaluated /\ unit.args.actual_value # NoValue) =>
      \A pad \in Pads, op \in ListedOps, gap \in Pads, n \in NumberLiterals :
         unit.args.condition = ConditionText(pad, op, gap, n) =>
           IF unit.args.actual_value \in NumberTexts
           THEN unit.value = Holds(op, Tenths(unit.args.actual_value), Tenths(n))
           ELSE unit.value = FALSE

\* "up" against "!= 95": not a number, so FAIL although it differs from 95
C13_Witness ==
    /\ Evaluated
    /\ unit.args.actual_value = <<"u", "p">>
    /\ unit.args.condition = <<"!", "=", " ", "9", "5">>
    /\ unit.value = FALSE

(***************************************************************************)
(* C14 as stated: the operator of a numeric condition is optional, so a    *)
(* condition that is a signed decimal literal alone passes for some        *)
(* numeric actual value: of three rules with the condition "95", on the    *)
(* values 92, 95 and 97, at least one passes.                              *)
(***************************************************************************)
Validated == unit.name = "validate" /\ unit.done

BareLiteral(c) ==
    \E pad \in Pads, gap \in Pads, n \in NumberLiterals :
       c = ConditionText(pad, <<>>, gap, n)

C14_Original ==
    (Validated /\ BareLiteral(unit.args.validations[1].condition))
    => \E k \in DOMAIN unit.value : unit.value[k].passed

(***************************************************************************)
(* C14, amended: the operator of a numeric condition is required: a        *)
(* condition that is a signed decimal literal alone matches neither        *)
(* grammar and evaluates to FAIL for every actual value.                   *)
(***************************************************************************)
C14_OperatorRequired ==
    /\ (Evaluated /\ BareLiteral(unit.args.condition)) => unit.value = FALSE
    /\ (Validated /\ BareLiteral(unit.args.validations[1].condition))
       => \A k \in DOMAIN unit.value : unit.value[k].passed = FALSE

\* the condition "95" evaluated on 92, 95 and 97: three verdicts, none passed
C14_Witness ==
    /\ Validated
    /\ unit.args.validations[1].condition = <<"9", "5">>
    /\ Len(unit.value) = 3
    /\ unit.value[2].actual = <<"9", "5">>
    /\ \A k \in DOMAIN unit.value : unit.value[k].passed = FALSE

(***************************************************************************)
(* C15: for '==', '=' or '!=' followed by a literal s in single or double  *)
(* quotes and a present actual value a, '==' and '=' pass exactly when the *)
(* text of a equals s, and '!=' passes exactly when it differs.            *)
(***************************************************************************)
Quote(q, text) == <<q>> \o text \o <<q>>

QuotedTexts == {<<"u", "p">>, <<"d", "o", "w", "n">>, <<>>, <<"9", "5">>}

C15_StringComparison ==
    (Evaluated /\ unit.args.actual_value # NoValue) =>
      \A pad \in Pads, gap \in Pads, q \in {"'", "\""}, text \in QuotedTexts :
         /\ \A op \in {<<"=", "=">>, <<"=">>} :
              unit.args.condition = ConditionText(pad, op, gap, Quote(q, text))
              => unit.value = (unit.args.actual_value = text)
         /\ unit.args.condition = ConditionText(pad, <<"!", "=">>, gap, Quote(q, text))
            => unit.value = (unit.args.actual_value # text)

\* "95.0" against "!= '95'": the texts differ although the numbers are equal
C15_Witness ==
    /\ Evaluated
    /\ unit.args.actual_value = <<"9", "5", ".", "0">>
    /\ unit.args.condition = <<"!", "=", " ", "'", "9", "5", "'">>
    /\ unit.value = TRUE

(***************************************************************************)
(* C16 as stated: corrupting any single required field of a well-formed    *)
(* pack makes validate_pack return a non-empty defect list with a defect   *)
(* that names the corrupted field.                                         *)
(***************************************************************************)
PackValidated == unit.name = "validate_pack" /\ unit.done

\* defect d is the one validate_pack writes for corruption c of pack p
Names(d, c, p) ==
    CASE c.field = "metadata.name" -> d = <<"Pack name is required">>
      [] c.field = "commands" -> d = <<"Pack must have at least one command">>
      [] c.field = "metadata.operation_type" ->
           d = <<"Invalid operation_type: ", c.value>>
      [] c.field = "execution.mode" -> d = <<"Invalid execution mode: ", c.value>>
      [] c.field = "authentication.connection_type" ->
           d = <<"Invalid connection_type: ", c.value>>
      [] c.field = "command.parser" ->
           d = <<"Invalid parser for command '", p.commands[c.k].name, "': ",
                 c.value>>
      [] c.field = "command.parser_template" ->
           d = <<"Command '", p.commands[c.k].name,
                 "' uses textfsm but no parser_template specified">>
      [] c.field = "command.parser_pattern" ->
           d = <<"Command '", p.commands[c.k].name,
                 "' uses regex but no parser_pattern specified">>
      [] c.field = "validation.severity" ->
           d = <<"Invalid severity for validation '", p.validations[c.k].name,
                 "': ", c.value>>
      [] OTHER -> FALSE

C16_Original ==
    PackValidated =>
      \A p \in WellFormedPacks, c \in Corruptions :
         (Applies(c, p) /\ unit.args.pack = Corrupt(p, c))
         => /\ unit.value # <<>>
            /\ \E k \in DOMAIN unit.value : Names(unit.value[k], c, p)

(***************************************************************************)
(* C16, amended: validate_pack returns no defect for a well-formed pack;   *)
(* corrupting the pack name, the command list, the operation kind, the     *)
(* mode, the connection kind, a command's parser kind, the template of a   *)
(* templated command, the pattern of a pattern command or a rule's         *)
(* severity yields exactly the one defect that names the field; corrupting *)
(* any other required field (other metadata, the credential reference, a   *)
(* command's name or text, a rule's name, field or condition) yields no    *)
(* defect.                                                                 *)
(***************************************************************************)
C16_CheckedFieldsOnly ==
    PackValidated =>
      /\ unit.args.pack \in WellFormedPacks => unit.value = <<>>
      /\ \A p \in WellFormedPacks, c \in Corruptions :
           (Applies(c, p) /\ unit.args.pack = Corrupt(p, c))
           => IF c.field \in CheckedFields
              THEN /\ Len(unit.value) = 1
                   /\ Names(unit.value[1], c, p)
              ELSE unit.value = <<>>

\* a pack whose second rule has an unknown severity: one defect, naming it
C16_Witness ==
    /\ PackValidated
    /\ Len(unit.args.pack.validations) = 2
    /\ unit.args.pack.validations[2].severity = "bogus"
    /\ unit.value =
         << <<"Invalid severity for validation '",
              unit.args.pack.validations[2].name, "': ", "bogus">> >>

(***************************************************************************)
(* C17: validate_pack returns no defect exactly for the packs with a       *)
(* non-empty name, at least one command, operation kind read or write,     *)
(* mode observe or execute, connection kind ssh, telnet or api, every      *)
(* command with a known parser kind and its template or pattern, and       *)
(* every rule with a known severity; defects are reported in the record,   *)
(* not raised; whenever the runner has called connect, exec or parse the   *)
(* pack is such a pack, and the parser is never handed an unknown kind.    *)
(***************************************************************************)
WellFormed(p) ==
    /\ p.metadata.name \notin {None, ""}
    /\ Len(p.commands) >= 1
    /\ p.metadata.operation_type \in {"read", "write"}
    /\ p.execution.mode \in {"observe", "execute"}
    /\ p.authentication.connection_type \in {"ssh", "telnet", "api"}
    /\ \A k \in DOMAIN p.commands :
         /\ p.commands[k].parser \in {"textfsm", "regex", "raw"}
         /\ p.commands[k].parser = "textfsm"
            => p.commands[k].parser_template \notin {None, ""}
         /\ p.commands[k].parser = "regex"
            => p.commands[k].parser_pattern \notin {None, ""}
    /\ \A k \in DOMAIN p.validations :
         p.validations[k].severity \in {"info", "warning", "critical"}

C17_PackInvariant ==
    /\ PackLoaded => (validate_pack(pack) = <<>> <=> WellFormed(pack))
    /\ (PackLoaded /\ ~WellFormed(pack) /\ Ended)
       => /\ pc = "returned"
          /\ exc = NoExc
          /\ result.error[1] = "Pack validation failed: "
    /\ (Called("connect") \/ Called("exec") \/ Called("parse")) => WellFormed(pack)
    /\ pc = "parse" => pack.commands[idx].parser \in {"textfsm", "regex", "raw"}
    /\ \A k \in DOMAIN calls :
         calls[k].op = "parse" /\ ~calls[k].ok => exc.type # "ValueError"

\* the second command of a well-formed pack is about to be parsed
C17_Witness ==
    /\ pc = "parse"
    /\ idx = 2
    /\ pack.commands[1].parser = "regex"
    /\ pack.commands[2].parser = "textfsm"
    /\ Len(pack.validations) = 2
    /\ WellFormed(pack)

(***************************************************************************)
(* C18: parsing with a pattern returns the named groups of one search over *)
(* the whole text, the first match, or an empty mapping when there is no   *)
(* match; no match is not an error: nothing is raised, the empty result is *)
(* stored under the command's name, the next command is executed, and a    *)
(* run whose commands all ran returns success = true with that result.     *)
(***************************************************************************)
\* what PAT_HEALTH finds in each device output
HealthGroups(o) ==
    CASE o = OUT_OK -> [cpu_5min |-> <<"9", "2">>, status |-> <<"u", "p">>]
      [] o = OUT_HOT -> [cpu_5min |-> <<"9", "7">>, status |-> <<"d", "o", "w", "n">>]
      [] o = OUT_OTHER -> EmptyDict

ParsesPattern ==
    /\ pc = "parse"
    /\ pack.commands[idx].parser = "regex"
    /\ pack.commands[idx].parser_pattern = PAT_HEALTH

StoredEmpty(rs) == \E j \in DOMAIN rs : rs[j][2] = Dict(EmptyDict)

C18_NoMatchIsEmpty ==
    /\ [][ParsesPattern =>
            /\ exc' = NoExc
            /\ calls' = Append(calls, Call("parse", idx, TRUE))
            /\ \E j \in DOMAIN results' :
                 results'[j] = <<pack.commands[idx].name, Dict(HealthGroups(output))>>
            /\ pc' = IF idx < Len(pack.commands) THEN "exec" ELSE "finally"]_vars
    /\ []((pc = "returned" /\ exc = NoExc /\ StoredEmpty(results))
          => /\ result.success = TRUE
             /\ result.command_results = results)

\* the first command's pattern was not found, the second command ran, and
\* the run returned success with the empty result
C18_Witness ==
    /\ pc = "returned"
    /\ Len(pack.commands) = 2
    /\ pack.commands[1] = cmdCpu
    /\ RanCommand(2)
    /\ result.success = TRUE
    /\ result.command_results[1] = <<"show_cpu", Dict(EmptyDict)>>
    /\ Len(result.command_results) = 2

(***************************************************************************)
(* C19: within one run connect is called at most once, the exec calls are  *)
(* the commands 1, 2, ... of the pack in declared order, each at most      *)
(* once, and the output of a command is parsed before the next command is  *)
(* executed, whatever the pack's retry_count, retry_delay_seconds and      *)
(* parallel_execution are: a failed command is not executed again.         *)
(***************************************************************************)
ExecsBefore(j) == Cardinality({i \in 1..(j - 1) : calls[i].op = "exec"})

C19_SequentialNoRetry ==
    /\ CountOp("connect") <= 1
    /\ \A j \in DOMAIN calls :
         calls[j].op = "exec" =>
           /\ calls[j].n = ExecsBefore(j) + 1
           /\ calls[j].n <= Len(pack.commands)
           /\ \E i \in 1..(j - 1) : calls[i] = Call("connect", 0, TRUE)
           /\ calls[j].n > 1 => calls[j - 1] = Call("parse", calls[j].n - 1, TRUE)
    /\ \A j \in DOMAIN calls :
         calls[j].op = "parse" =>
           /\ j > 1
           /\ calls[j - 1] = Call("exec", calls[j].n, TRUE)

\* a pack with retry_count = 3 and parallel_execution set: the second
\* command failed and was executed once
C19_Witness ==
    /\ pc = "returned"
    /\ pack.execution.retry_count = 3
    /\ pack.execution.parallel_execution
    /\ Len(pack.commands) = 2
    /\ \E j \in DOMAIN calls : calls[j] = Call("exec", 2, FALSE)
    /\ CountOp("exec") = 2
    /\ result.success = FALSE

(***************************************************************************)
(* C20: when connect yields no session (credential not found, unsupported  *)
(* platform, timeout, authentication failure, any other connection error)  *)
(* no exec, parse or disconnect call is made in that run, and the run      *)
(* returns success = false with an error that contains the connection      *)
(* manager's reason.                                                       *)
(***************************************************************************)
ConnectFailed == \E k \in DOMAIN calls : calls[k].op = "connect" /\ ~calls[k].ok

CredentialRef ==
    IF pack.authentication.credential_ref \in {None, ""}
    THEN device.credential_ref
    ELSE pack.authentication.credential_ref

\* the messages of a ConnectionResult without a session, for the device
FailureReasons ==
    { <<"Credential not found: ", CredentialRef>> }
    \cup (IF device.platform \in {"ios", "ios-xe", "nxos", "asa", "junos", "eos"}
          THEN { <<"Connection timeout to ", device.hostname>>,
                 <<"Authentication failed for ", device.hostname>>,
                 <<"Connection error: ", "socket error">> }
          ELSE { <<"Unsupported platform: ", device.platform>> })

C20_ConnectFailureEndsRun ==
    ConnectFailed =>
      /\ ~Called("exec")
      /\ ~Called("parse")
      /\ ~Called("disconnect")
      /\ session = "none"
      /\ Ended =>
           /\ pc = "returned"
           /\ result.success = FALSE
           /\ result.command_results = <<>>
           /\ \/ \E reason \in FailureReasons :
                   result.error =
                     <<"Execution error: ", "Connection failed: ">> \o reason
              \/ result.error =
                   <<"Execution error: ", "Windows Credential Manager not available">>

\* a run against the pfsense device, a platform the connection manager does
\* not know
C20_Witness ==
    /\ pc = "returned"
    /\ ConnectFailed
    /\ device.hostname = "lab-fw-03"
    /\ result.success = FALSE
    /\ result.error =
         <<"Execution error: ", "Connection failed: ", "Unsupported platform: ",
           "pfsense">>

(***************************************************************************)
(* C21: when several terminal conditions hold for one run call, the record *)
(* reports the earliest of pack-not-found, pack-invalid, device-not-found, *)
(* policy-violation, connection failure: an invalid pack reports           *)
(* pack-invalid whatever the device, an unknown device is reported         *)
(* whatever the pack's mode, before any policy check, and a policy         *)
(* violation is reported before any connection attempt.                    *)
(***************************************************************************)
PackFile == packs_dir[args.pack_name]

C21_EarliestOutcome ==
    Ended =>
      /\ pc = "returned"
      /\ args.pack_name \notin DOMAIN packs_dir
         => /\ result.error =
                 <<"Execution error: ", "Pack not found: ", args.pack_name>>
            /\ ~Called("get_device")
            /\ ~Called("connect")
      /\ (/\ args.pack_name \in DOMAIN packs_dir
          /\ PackFile.kind = "yaml"
          /\ validate_pack(PackFile.data) # <<>>)
         => /\ result.error[1] = "Pack validation failed: "
            /\ ~Called("get_device")
            /\ ~Called("connect")
      /\ PackValid /\ Target = NoDevice
         => /\ result.error =
                 <<"Device not found in CMDB: ", args.device_hostname>>
            /\ ~Called("connect")
      /\ (/\ PackValid
          /\ Target # NoDevice
          /\ pack.execution.mode = "execute"
          /\ ~allows_execution(Target))
         => /\ result.error = PolicyMessage
            /\ ~Called("connect")
      /\ ConnectFailed
         => /\ PackValid
            /\ Target # NoDevice
            /\ policy_gate(pack, Target) = "pass"
            /\ result.success = FALSE
            /\ result.error[1] = "Execution error: "
            /\ ~Called("exec")

\* an invalid execute-mode pack run against a hostname the inventory lacks
C21_Witness ==
    /\ pc = "returned"
    /\ PackLoaded
    /\ validate_pack(pack) # <<>>
    /\ pack.execution.mode = "execute"
    /\ Target = NoDevice
    /\ result.error[1] = "Pack validation failed: "

(***************************************************************************)
(* C22 as stated: pack and device are loaded fresh on every run call, so   *)
(* the pack a call works on is the pack file's content and the device it   *)
(* looked up is the inventory file's entry at the time of the call.        *)
(***************************************************************************)
C22_Original ==
    /\ PackLoaded
       => /\ args.pack_name \in DOMAIN packs_dir
          /\ pack = PackFile.data
    /\ Called("get_device")
       => device = get_device(_load_from_yaml(cmdb_file), args.device_hostname)

(***************************************************************************)
(* C22, amended: the pack is loaded fresh on every run call, so a change   *)
(* made to the pack file between two calls is observed by the second call; *)
(* the device is looked up on every call in the device list the runner's   *)
(* CMDB loaded when it was constructed, so a change made to the inventory  *)
(* between the calls (a device added or removed, 'allow_execute' removed)  *)
(* is not observed by a later call on the same runner.                     *)
(***************************************************************************)
C22_PackFreshInventoryOnce ==
    /\ PackLoaded
       => /\ args.pack_name \in DOMAIN packs_dir
          /\ pack = PackFile.data
    /\ Called("load_pack") /\ ~PackLoaded
       => \/ args.pack_name \notin DOMAIN packs_dir
          \/ PackFile.kind = "broken"
    /\ devices = _load_from_yaml(InventoryFile)
    /\ Called("get_device")
       => device = get_device(_load_from_yaml(InventoryFile),
                              args.device_hostname)

\* after both files were edited (the mode of the pack changed to observe,
\* edge-sw-02 taken out of the inventory), a run of the edited pack opened a
\* session on edge-sw-02
C22_Witness ==
    /\ pc = "returned"
    /\ pack.execution =
         [mode |-> "observe", retry_count |-> 3, retry_delay_seconds |-> 1,
          parallel_execution |-> TRUE]
    /\ cmdb_file = InventoryFileEdited
    /\ args.device_hostname = "edge-sw-02"
    /\ device.hostname = "edge-sw-02"
    /\ Acquired
    /\ result.success = TRUE

(***************************************************************************)
(* C23: for every interleaving of two run calls against different devices  *)
(* on one runner, each call uses and releases only the session it acquired *)
(* itself, and each returned record is the record the call produces alone  *)
(* with the same collaborator responses (so it holds the results of its    *)
(* own commands only).                                                     *)
(***************************************************************************)
Failure(a, error) ==
    _create_error_result(a.pack_name, a.device_hostname, error)

\* the command loop of a call running alone, on the answers in tape
RECURSIVE AloneLoop(_, _, _, _, _)
AloneLoop(a, p, tape, k, acc) ==
    IF k > Len(p.commands) THEN BuildResult(a.pack_name, a.device_hostname, p, acc)
    ELSE IF tape[1].resp.raised
    THEN Failure(a, <<"Execution error: ">> \o tape[1].resp.exc.msg)
    ELSE IF parse(tape[1].resp.value, p.commands[k].parser,
                  p.commands[k].parser_template, p.commands[k].parser_pattern,
                  tape[2].resp).raised
    THEN Failure(a, <<"Execution error: ">>
                    \o parse(tape[1].resp.value, p.commands[k].parser,
                             p.commands[k].parser_template,
                             p.commands[k].parser_pattern, tape[2].resp).exc.msg)
    ELSE AloneLoop(a, p, Tail(Tail(tape)), k + 1,
                   DictSet(acc, p.commands[k].name,
                           parse(tape[1].resp.value, p.commands[k].parser,
                                 p.commands[k].parser_template,
                                 p.commands[k].parser_pattern,
                                 tape[2].resp).value))

AloneConnected(a, p, c, tape) ==
    IF c.raised THEN Failure(a, <<"Execution error: ">> \o c.exc.msg)
    ELSE IF ~c.success
    THEN Failure(a, <<"Execution error: ", "Connection failed: ">> \o c.message)
    ELSE AloneLoop(a, p, tape, 1, <<>>)

AloneOn(a, p, d, tape) ==
    IF d = NoDevice
    THEN Failure(a, <<"Device not found in CMDB: ", a.device_hostname>>)
    ELSE IF p.execution.mode = "execute" /\ ~allows_execution(d)
    THEN Failure(a, <<"Device ", a.device_hostname,
                      " does not allow execution (missing 'allow_execute' tag)">>)
    ELSE IF a.dry_run
    THEN BuildResult(a.pack_name, a.device_hostname, p, <<>>)
    ELSE AloneConnected(a, p,
                        connect(d, p.authentication.credential_ref, tape[1].resp),
                        Tail(tape))

\* the record of a call with arguments a that runs alone and hears tape
Alone(a, tape) ==
    IF a.pack_name \notin DOMAIN packs_dir
    THEN Failure(a, <<"Execution error: ", "Pack not found: ", a.pack_name>>)
    ELSE IF packs_dir[a.pack_name].kind = "broken"
    THEN Failure(a, <<"Execution error: ", "'metadata'">>)
    ELSE IF validate_pack(packs_dir[a.pack_name].data) # <<>>
    THEN Failure(a, PackInvalidMessage(validate_pack(packs_dir[a.pack_name].data)))
    ELSE AloneOn(a, packs_dir[a.pack_name].data,
                 get_device(devices, a.device_hostname), tape)

OwnSession(f) ==
    /\ \A k \in DOMAIN f.heard :
         f.heard[k].on # None
         => /\ f.heard[k].on = f.connection
            /\ f.connection = f.args.device_hostname
    /\ f.session = "open" => f.connection \in live
    /\ f.session \in {"closed", "lost", "none"} => f.args.device_hostname \notin live

C23_CallsDoNotInterfere ==
    /\ \A f \in {Frame, peer} :
         /\ OwnSession(f)
         /\ f.pc # "raised"
         /\ f.pc = "returned" => f.result = Alone(f.args, f.heard)
    /\ \A h \in live : \E f \in {Frame, peer} : f.session = "open" /\ f.connection = h

\* both calls hold a session: one has stored its two results and is about to
\* release its session, the other is between its two commands
C23_Witness ==
    /\ Cardinality(live) = 2
    /\ pc = "finally"
    /\ Len(results) = 2
    /\ peer.pc = "exec"
    /\ peer.idx = 2
    /\ peer.args.device_hostname # args.device_hostname

Running == pc \notin {"idle", "returned", "raised"}

C25_OneRecordPerCall ==
    /\ []((pc = "returned") <=> (result # NoResult))
    /\ [][/\ result' # result
             => \/ result = NoResult /\ Running /\ pc' = "returned"
                \/ result' = NoResult /\ pc = "returned" /\ pc' = "load"
          /\ pc = "returned" /\ pc' # "returned" => pc' = "load"]_vars
    /\ Running ~> (pc = "returned")

\* a call that went through every stage has handed over its record
C25_Witness ==
    /\ pc = "returned"
    /\ result.success = TRUE
    /\ CountOp("exec") = 2
    /\ CountOp("parse") = 2
    /\ CountOp("disconnect") = 1
    /\ Len(result.validation_results) = 1

(***************************************************************************)
(* C26: disconnect never raises and can be repeated: a failure of the      *)
(* session's own close, or a second disconnect of the same session, is     *)
(* swallowed.  So in a run a failed release changes nothing: a run whose   *)
(* commands all succeeded still returns success = true with all command    *)
(* results, and a run that was failing keeps the error of its failure.     *)
(***************************************************************************)
CloseFailed == \E j \in DOMAIN calls : calls[j].op = "disconnect" /\ ~calls[j].ok

CommandFailed ==
    \E j \in DOMAIN calls : calls[j].op \in {"exec", "parse"} /\ ~calls[j].ok

C26_ReleaseFailureSwallowed ==
    /\ (pc = "direct" /\ calls[Len(calls)].op = "disconnect")
       => /\ exc = NoExc
          /\ connection \notin live
          /\ session # "open"
    /\ (pc = "returned" /\ CloseFailed)
       => /\ exc # CloseError
          /\ ~CommandFailed
             => /\ \A k \in DOMAIN pack.commands : RanCommand(k)
                /\ result.success = TRUE
                /\ result.error = NoValue
                /\ result.command_results = results
                /\ \A k \in DOMAIN pack.commands :
                     \E j \in DOMAIN result.command_results :
                        result.command_results[j][1] = pack.commands[k].name
          /\ CommandFailed
             => /\ result.success = FALSE
                /\ exc.type # "OSError"
                /\ result.error = <<"Execution error: ">> \o exc.msg

\* a run of two commands that all succeeded and whose release failed
C26_Witness ==
    /\ pc = "returned"
    /\ CloseFailed
    /\ session = "lost"
    /\ ~CommandFailed
    /\ Len(pack.commands) = 2
    /\ Len(result.command_results) = 2
    /\ result.success = TRUE

(***************************************************************************)
(* C27: on a successful run that is not a dry run, commands_executed is    *)
(* the number of commands the run executed on the device (the number of    *)
(* exec calls, which is the number of commands the pack declares), for     *)
(* every pack that passes structural validation, two commands of the same  *)
(* name included.                                                          *)
(***************************************************************************)
C27_CommandsExecutedCount ==
    (/\ pc = "returned"
     /\ ~args.dry_run
     /\ PackValid
     /\ result.success = TRUE)
    => /\ CountOp("exec") = Len(pack.commands)
       /\ result.commands_executed = CountOp("exec")

(***************************************************************************)
(* C28: every record run returns satisfies: success = false implies an     *)
(* error is present, commands_executed = 0, the command-result mapping and *)
(* the verdict sequence are empty and both validation counts are 0;        *)
(* success = true implies error is absent; and validations_passed +        *)
(* validations_failed is the number of verdicts.                           *)
(***************************************************************************)
C28_RecordInvariant ==
    pc = "returned" =>
      /\ result.success = FALSE
         => /\ result.error # NoValue
            /\ result.error # <<>>
            /\ result.commands_executed = 0
            /\ result.command_results = <<>>
            /\ result.validation_results = <<>>
            /\ result.validations_passed = 0
            /\ result.validations_failed = 0
      /\ result.success = TRUE => result.error = NoValue
      /\ result.validations_passed + result.validations_failed
           = Len(result.validation_results)
      /\ result.validations_passed
           = Cardinality({k \in DOMAIN result.validation_results :
                            result.validation_results[k].passed})

\* a successful record with one passing and one failing verdict
C28_Witness ==
    /\ pc = "returned"
    /\ result.success = TRUE
    /\ result.validations_passed = 1
    /\ result.validations_failed = 1
    /\ result.commands_executed = 2

(***************************************************************************)
(* C29: the decision of the policy gate is a function of the pack's        *)
(* execution mode and of the presence of 'allow_execute' on the device     *)
(* only: packs that differ only in operation kind are gated identically,   *)
(* and a run (not dry) of a pack with operation kind 'write' and mode      *)
(* 'observe' opens a session on a device that lacks the marker.            *)
(***************************************************************************)
Gated == PackValid /\ Called("get_device") /\ device # NoDevice

Stopped == pc = "returned" /\ result.error = PolicyMessage

GoodQuery(e) == e.op = "get_all_nodes" /\ e.queried /\ e.ok

\* the last successful node query before call k that no clear_cache
\* followed, 0 when there is none
LastGood(log, k) ==
    LET good == {j \in 1..(k - 1) :
                   /\ GoodQuery(log[j])
                   /\ \A m \in (j + 1)..(k - 1) : log[m].op # "clear_cache"}
    IN  IF good = {} THEN 0 ELSE CHOOSE j \in good : \A m \in good : m <= j

Served(log, k) ==
    /\ log[k].use_cache
    /\ LastGood(log, k) # 0
    /\ log[k].at - log[LastGood(log, k)].at < CacheTtl

C30_NodeCache ==
    /\ \A k \in DOMAIN sw.log :
         sw.log[k].op = "get_all_nodes"
         => IF Served(sw.log, k)
            THEN /\ ~sw.log[k].queried
                 /\ sw.log[k].ok
                 /\ sw.log[k].value = sw.log[LastGood(sw.log, k)].value
            ELSE sw.log[k].queried
    /\ IF LastGood(sw.log, Len(sw.log) + 1) = 0
       THEN sw.nodes = NoValue /\ sw.stamp = NoStamp
       ELSE /\ sw.nodes = sw.log[LastGood(sw.log, Len(sw.log) + 1)].value
            /\ sw.stamp = sw.log[LastGood(sw.log, Len(sw.log) + 1)].at

\* a query, a failed forced refresh a second later, then a call served from
\* the cache
C30_Witness ==
    /\ Len(sw.log) = 3
    /\ GoodQuery(sw.log[1])
    /\ sw.log[1].value = <<"core-rtr-01", "edge-sw-02">>
    /\ sw.log[2].op = "get_all_nodes" /\ sw.log[2].queried /\ ~sw.log[2].ok
    /\ sw.log[2].at = sw.log[1].at + 1
    /\ sw.log[3].op = "get_all_nodes" /\ ~sw.log[3].queried
    /\ sw.log[3].value = <<"core-rtr-01", "edge-sw-02">>

=============================================================================
